---------------------------- MODULE Spec2Model ----------------------------
(***************************************************************************)
(* benchls: compiling arithmetic formulas (go expressions over float64,    *)
(* math.* calls and the names captured by the -vars pattern) into reverse  *)
(* polish notation, evaluating them, and main's configuration sequence.    *)
(*                                                                         *)
(* Text is a sequence of one-character strings.  A float64 is a record     *)
(* [k, s, n, d, t]: k = "fin" is the number s*n/d in lowest terms (a zero  *)
(* keeps its sign s), "inf" is s*infinity, "nan" is not-a-number, and      *)
(* "opq" is the result t = <<function, arguments...>> of a function whose  *)
(* value is not a rational.  Arithmetic is exact: rounding and overflow of *)
(* the 64-bit format are not modelled.                                     *)
(***************************************************************************)
EXTENDS Integers, Sequences, FiniteSets, TLC

\* ------------------------------------------------------------------------
\* float64 values

RECURSIVE Gcd(_, _)
Gcd(a, b) == IF b = 0 THEN a ELSE Gcd(b, a % b)

Fin(s, n, d) ==
    LET g == Gcd(n, d)
    IN  IF n = 0 THEN [k |-> "fin", s |-> s, n |-> 0, d |-> 1, t |-> <<>>]
        ELSE [k |-> "fin", s |-> s, n |-> n \div g, d |-> d \div g, t |-> <<>>]

Inf(s) == [k |-> "inf", s |-> s, n |-> 1, d |-> 0, t |-> <<>>]

NaN == [k |-> "nan", s |-> 1, n |-> 0, d |-> 0, t |-> <<>>]

Opq(f, args) == [k |-> "opq", s |-> 1, n |-> 0, d |-> 0, t |-> <<f>> \o args]

IsZero(a) == a.k = "fin" /\ a.n = 0

\* -x
FNeg(a) ==
    CASE a.k = "opq" -> Opq("u-", <<a>>)
      [] a.k = "nan" -> NaN
      [] OTHER -> [a EXCEPT !.s = -a.s]

\* x + y
FAdd(a, b) ==
    CASE a.k = "opq" \/ b.k = "opq" -> Opq("+", <<a, b>>)
      [] a.k = "nan" \/ b.k = "nan" -> NaN
      [] a.k = "inf" /\ b.k = "inf" -> IF a.s = b.s THEN a ELSE NaN
      [] a.k = "inf" -> a
      [] b.k = "inf" -> b
      [] IsZero(a) /\ IsZero(b) -> IF a.s = b.s THEN a ELSE Fin(1, 0, 1)
      \* the signed rational of the sum, over the least common denominator;
      \* a zero sum is +0
      [] OTHER ->
           LET l == (a.d * b.d) \div Gcd(a.d, b.d)
               p == a.s * a.n * (l \div a.d) + b.s * b.n * (l \div b.d)
           IN  IF p < 0 THEN Fin(-1, -p, l) ELSE Fin(1, p, l)

\* x - y
FSub(a, b) ==
    IF a.k = "opq" \/ b.k = "opq" THEN Opq("-", <<a, b>>) ELSE FAdd(a, FNeg(b))

\* x * y
FMul(a, b) ==
    CASE a.k = "opq" \/ b.k = "opq" -> Opq("*", <<a, b>>)
      [] a.k = "nan" \/ b.k = "nan" -> NaN
      [] (a.k = "inf" /\ IsZero(b)) \/ (IsZero(a) /\ b.k = "inf") -> NaN
      [] a.k = "inf" \/ b.k = "inf" -> Inf(a.s * b.s)
      [] OTHER ->
           LET g == Gcd(a.n, b.d)
               h == Gcd(b.n, a.d)
           IN  Fin(a.s * b.s, (a.n \div g) * (b.n \div h), (a.d \div h) * (b.d \div g))

\* x / y
FQuo(a, b) ==
    CASE a.k = "opq" \/ b.k = "opq" -> Opq("/", <<a, b>>)
      [] a.k = "nan" \/ b.k = "nan" -> NaN
      [] a.k = "inf" /\ b.k = "inf" -> NaN
      [] IsZero(a) /\ IsZero(b) -> NaN
      [] a.k = "inf" -> Inf(a.s * b.s)
      [] b.k = "inf" -> Fin(a.s * b.s, 0, 1)
      [] IsZero(b) -> Inf(a.s * b.s)
      [] OTHER ->
           LET g == Gcd(a.n, b.n)
               h == Gcd(a.d, b.d)
           IN  Fin(a.s * b.s, (a.n \div g) * (b.d \div h), (a.d \div h) * (b.n \div g))

\* x < y on values that are not NaN and not opaque
FLess(a, b) ==
    CASE a.k = "inf" -> a.s = -1 /\ ~(b.k = "inf" /\ b.s = -1)
      [] b.k = "inf" -> b.s = 1
      [] OTHER -> a.s * a.n * b.d < b.s * b.n * a.d

\* the natural r with r*r = m, or -1
ISqrt(m) == IF \E r \in 0..m : r * r = m THEN CHOOSE r \in 0..m : r * r = m ELSE -1


\* ------------------------------------------------------------------------
\* go/scanner and go/parser, as far as parseX and newEvaluation use them:
\* identifiers, decimal literals, string literals, operators, parentheses,
\* selectors, calls, index expressions, composite literals and the empty
\* function literal.  Text has no line breaks and no comments.

Letter ==
    {"a", "b", "c", "d", "e", "f", "g", "h", "i", "j", "k", "l", "m", "n", "o",
     "p", "q", "r", "s", "t", "u", "v", "w", "x", "y", "z", "A", "B", "C", "D",
     "E", "F", "G", "H", "I", "J", "K", "L", "M", "N", "O", "P", "Q", "R", "S",
     "T", "U", "V", "W", "X", "Y", "Z", "_"}

Digit == {"0", "1", "2", "3", "4", "5", "6", "7", "8", "9"}

OneCharOps ==
    {"+", "-", "*", "/", "%", "&", "|", "^", "<", ">", "!", "(", ")", "[", "]",
     "{", "}", ",", ".", ":", "="}

\* the text as one string
RECURSIVE Str(_)
Str(cs) == IF cs = <<>> THEN "" ELSE Head(cs) \o Str(Tail(cs))

\* the first index from i on whose character is not in set
RECURSIVE RunEnd(_, _, _)
RunEnd(src, i, set) ==
    IF i <= Len(src) /\ src[i] \in set THEN RunEnd(src, i + 1, set) ELSE i

\* a token: its kind, its text (as characters), and its token.Pos range
\* [pos, end) in a file of base 1 (the first file of a new FileSet)
Token(tok, src, i, j) ==
    [tok |-> tok, lit |-> SubSeq(src, i, j - 1), pos |-> i, end |-> j]

RECURSIVE Scan(_, _)
Scan(src, i) ==
    IF i > Len(src) THEN <<>>
    ELSE LET c == src[i]
             n == IF i < Len(src) THEN src[i + 1] ELSE ""
         IN  CASE c = " " -> Scan(src, i + 1)
               [] c \in Letter ->
                    LET j == RunEnd(src, i, Letter \cup Digit)
                        w == Str(SubSeq(src, i, j - 1))
                    IN  <<Token(IF w = "func" THEN "func" ELSE "IDENT", src, i, j)>>
                            \o Scan(src, j)
               [] c \in Digit ->
                    LET j == RunEnd(src, i, Digit)
                    IN  IF j <= Len(src) /\ src[j] = "."
                        THEN LET k == RunEnd(src, j + 1, Digit)
                             IN  <<Token("FLOAT", src, i, k)>> \o Scan(src, k)
                        ELSE <<Token("INT", src, i, j)>> \o Scan(src, j)
               [] c = "." /\ n \in Digit ->
                    LET k == RunEnd(src, i + 1, Digit)
                    IN  <<Token("FLOAT", src, i, k)>> \o Scan(src, k)
               [] c = "\"" ->
                    LET j == RunEnd(src, i + 1, (Letter \cup Digit \cup OneCharOps \cup {" "}))
                    IN  IF j <= Len(src) /\ src[j] = "\""
                        THEN <<Token("STRING", src, i, j + 1)>> \o Scan(src, j + 1)
                        ELSE <<Token("ILLEGAL", src, i, Len(src) + 1)>>
               [] <<c, n>> \in {<<"<", "<">>, <<">", ">">>, <<"=", "=">>, <<"!", "=">>,
                              <<"<", "=">>, <<">", "=">>, <<"&", "&">>, <<"|", "|">>,
                              <<"&", "^">>} ->
                    <<Token(c \o n, src, i, i + 2)>> \o Scan(src, i + 2)
               [] c \in OneCharOps ->
                    <<Token(c, src, i, i + 1)>> \o Scan(src, i + 1)
               [] OTHER -> <<Token("ILLEGAL", src, i, i + 1)>> \o Scan(src, i + 1)

\* an ast.Node: name is the text of an Ident or a BasicLit (as characters),
\* op the operator of a UnaryExpr or BinaryExpr and the kind of a BasicLit,
\* kids the children in the order ast.Walk visits them
Node(kind, op, name, kids, pos, end) ==
    [kind |-> kind, op |-> op, name |-> name, kids |-> kids, pos |-> pos, end |-> end]

Parsed(node, i) == [ok |-> TRUE, node |-> node, i |-> i]

\* an error: ParseExprFrom returns a BadExpr
Failed == [ok |-> FALSE, node |-> Node("BadExpr", "", <<>>, <<>>, 0, 0), i |-> 0]

Tok(toks, i) == IF i <= Len(toks) THEN toks[i].tok ELSE "EOF"

\* token.Token.Precedence
Prec(tok) ==
    CASE tok = "||" -> 1
      [] tok = "&&" -> 2
      [] tok \in {"==", "!=", "<", "<=", ">", ">="} -> 3
      [] tok \in {"+", "-", "|", "^"} -> 4
      [] tok \in {"*", "/", "%", "<<", ">>", "&", "&^"} -> 5
      [] OTHER -> 0

Ident(t) == Node("Ident", "", t.lit, <<>>, t.pos, t.end)

RECURSIVE ParseBinaryExpr(_, _, _), BinaryLoop(_, _, _), BinaryRight(_, _, _, _, _),
          ParseUnaryExpr(_, _), ParsePrimaryExpr(_, _), ParseOperand(_, _),
          ParseList(_, _, _, _, _), ParseItem(_, _, _, _, _),
          ParseLiteralValue(_, _)

\* a step of the parser on the result r of the step before it: an error
\* ends the parse
Then(r, next) == IF r.ok THEN next ELSE Failed

\* parser.parseExprList / parseElementList up to the closing token: the
\* result's node carries the list as its kids, and i is at the closing token
ParseList(toks, i, closer, acc, elements) ==
    IF Tok(toks, i) = closer THEN Parsed(Node("list", "", <<>>, acc, 0, 0), i)
    ELSE ParseItem(toks, closer, acc, elements,
                   IF elements /\ Tok(toks, i) = "{"
                   THEN ParseLiteralValue(toks, i)
                   ELSE ParseBinaryExpr(toks, i, 1))

\* after the item r of a list: a comma, or the closing token
ParseItem(toks, closer, acc, elements, r) ==
    IF ~r.ok THEN Failed
    ELSE CASE Tok(toks, r.i) = "," ->
                ParseList(toks, r.i + 1, closer, Append(acc, r.node), elements)
           [] Tok(toks, r.i) = closer ->
                Parsed(Node("list", "", <<>>, Append(acc, r.node), 0, 0), r.i)
           [] OTHER -> Failed

\* the node of kind over the list r that opened at position pos, with the
\* kids before in front
Closed(toks, kind, before, pos, r) ==
    Then(r, Parsed(Node(kind, "", <<>>, before \o r.node.kids, pos, toks[r.i].end),
                   r.i + 1))

\* parser.parseLiteralValue at "{": a CompositeLit without its type
ParseLiteralValue(toks, i) ==
    Closed(toks, "CompositeLit", <<>>, toks[i].pos, ParseList(toks, i + 1, "}", <<>>, TRUE))

\* the node of kind around the expression r, which the token closer must follow
Enclosed(toks, kind, before, pos, closer, r) ==
    IF r.ok /\ Tok(toks, r.i) = closer
    THEN Parsed(Node(kind, "", <<>>, Append(before, r.node), pos, toks[r.i].end), r.i + 1)
    ELSE Failed

\* func(){}: a FuncLit of an empty FuncType and an empty BlockStmt
EmptyFuncLit(toks, i) ==
    Node("FuncLit", "", <<>>,
         <<Node("FuncType", "", <<>>,
                <<Node("FieldList", "", <<>>, <<>>, toks[i + 1].pos, toks[i + 2].end)>>,
                toks[i].pos, toks[i + 2].end),
           Node("BlockStmt", "", <<>>, <<>>, toks[i + 3].pos, toks[i + 4].end)>>,
         toks[i].pos, toks[i + 4].end)

\* parser.parseOperand
ParseOperand(toks, i) ==
    LET tok == Tok(toks, i)
    IN  CASE tok = "IDENT" -> Parsed(Ident(toks[i]), i + 1)
          [] tok \in {"INT", "FLOAT", "STRING"} ->
               Parsed(Node("BasicLit", tok, toks[i].lit, <<>>, toks[i].pos, toks[i].end),
                      i + 1)
          [] tok = "(" ->
               Enclosed(toks, "ParenExpr", <<>>, toks[i].pos, ")",
                        ParseBinaryExpr(toks, i + 1, 1))
          [] tok = "func" ->
               IF /\ Tok(toks, i + 1) = "(" /\ Tok(toks, i + 2) = ")"
                  /\ Tok(toks, i + 3) = "{" /\ Tok(toks, i + 4) = "}"
               THEN Parsed(EmptyFuncLit(toks, i), i + 5)
               ELSE Failed
          [] OTHER -> Failed

\* the loop of parser.parsePrimaryExpr over r, the operand with the
\* selectors, indexes, calls and literal values parsed so far
ParsePrimaryExpr(toks, r) ==
    IF ~r.ok THEN Failed
    ELSE LET tok == Tok(toks, r.i)
             x   == r.node
         IN  CASE tok = "." ->
                    IF Tok(toks, r.i + 1) = "IDENT"
                    THEN ParsePrimaryExpr(toks,
                             Parsed(Node("SelectorExpr", "", <<>>,
                                         <<x, Ident(toks[r.i + 1])>>,
                                         x.pos, toks[r.i + 1].end), r.i + 2))
                    ELSE Failed
               [] tok = "[" ->
                    ParsePrimaryExpr(toks,
                        Enclosed(toks, "IndexExpr", <<x>>, x.pos, "]",
                                 ParseBinaryExpr(toks, r.i + 1, 1)))
               [] tok = "(" ->
                    ParsePrimaryExpr(toks,
                        Closed(toks, "CallExpr", <<x>>, x.pos,
                               ParseList(toks, r.i + 1, ")", <<>>, FALSE)))
               \* parser.isLiteralType: an identifier or a selector of one
               [] /\ tok = "{"
                  /\ \/ x.kind = "Ident"
                     \/ x.kind = "SelectorExpr" /\ x.kids[1].kind = "Ident" ->
                    ParsePrimaryExpr(toks,
                        Closed(toks, "CompositeLit", <<x>>, x.pos,
                               ParseList(toks, r.i + 1, "}", <<>>, TRUE)))
               [] OTHER -> r

\* the unary expression of operator token i over its operand r
Prefixed(toks, i, r) ==
    Then(r, Parsed(IF toks[i].tok = "*"
                   THEN Node("StarExpr", "", <<>>, <<r.node>>, toks[i].pos, r.node.end)
                   ELSE Node("UnaryExpr", toks[i].tok, <<>>, <<r.node>>,
                             toks[i].pos, r.node.end), r.i))

\* parser.parseUnaryExpr
ParseUnaryExpr(toks, i) ==
    IF Tok(toks, i) \in {"+", "-", "!", "^", "&", "*"}
    THEN Prefixed(toks, i, ParseUnaryExpr(toks, i + 1))
    ELSE ParsePrimaryExpr(toks, ParseOperand(toks, i))

\* the loop of parser.parseBinaryExpr over the left operand r: operators of
\* precedence >= prec1
BinaryLoop(toks, r, prec1) ==
    IF ~r.ok THEN Failed
    ELSE IF Prec(Tok(toks, r.i)) < prec1 THEN r
    ELSE BinaryRight(toks, r.node, Tok(toks, r.i), prec1,
                     ParseBinaryExpr(toks, r.i + 1, Prec(Tok(toks, r.i)) + 1))

\* the BinaryExpr of x, op and the right operand y, and on with the loop
BinaryRight(toks, x, op, prec1, y) ==
    IF ~y.ok THEN Failed
    ELSE BinaryLoop(toks,
             Parsed(Node("BinaryExpr", op, <<>>, <<x, y.node>>, x.pos, y.node.end), y.i),
             prec1)

\* parser.parseBinaryExpr
ParseBinaryExpr(toks, i, prec1) == BinaryLoop(toks, ParseUnaryExpr(toks, i), prec1)

\* the whole text must be the expression r
Whole(toks, r) == IF r.ok /\ r.i = Len(toks) + 1 THEN r ELSE Failed

ParseTokens(toks) ==
    IF \E i \in 1..Len(toks) : toks[i].tok = "ILLEGAL" THEN Failed
    ELSE Whole(toks, ParseBinaryExpr(toks, 1, 1))

\* parser.ParseExprFrom(fset, "", src, 0): the expression, or an error when
\* the text is not exactly one expression
ParseExprFrom(src) == ParseTokens(Scan(src, 1))

\* ------------------------------------------------------------------------
\* strconv.ParseFloat on the text of a literal

RECURSIVE DigitsVal(_, _)
DigitsVal(cs, acc) ==
    IF cs = <<>> THEN acc
    ELSE DigitsVal(Tail(cs),
                   10 * acc + (CHOOSE v \in 0..9 :
                                   <<"0", "1", "2", "3", "4", "5", "6", "7", "8", "9">>[v + 1]
                                       = Head(cs)))

RECURSIVE Pow10(_)
Pow10(k) == IF k = 0 THEN 1 ELSE 10 * Pow10(k - 1)

\* the characters of cs that are in set, in order
RECURSIVE Only(_, _)
Only(cs, set) ==
    IF cs = <<>> THEN <<>>
    ELSE IF Head(cs) \in set THEN <<Head(cs)>> \o Only(Tail(cs), set)
         ELSE Only(Tail(cs), set)

\* digits with at most one decimal point and at least one digit
ParseFloatOk(cs) ==
    /\ \A i \in 1..Len(cs) : cs[i] \in Digit \cup {"."}
    /\ Len(Only(cs, {"."})) <= 1
    /\ Len(Only(cs, Digit)) >= 1

ParseFloat(cs) ==
    LET dot  == RunEnd(cs, 1, Digit)
        frac == IF dot > Len(cs) THEN 0 ELSE Len(cs) - dot
    IN  Fin(1, DigitsVal(Only(cs, Digit), 0), Pow10(frac))

\* ------------------------------------------------------------------------
\* parse.go: the function tables

unaryFuncs ==
    {"Abs", "Acos", "Acosh", "Asin", "Asinh", "Atan", "Atanh", "Cbrt", "Ceil",
     "Cos", "Cosh", "Erf", "Erfc", "Exp", "Exp2", "Expm1", "Floor", "Gamma",
     "J0", "J1", "Log", "Log10", "Log1p", "Log2", "Logb", "Sin", "Sinh", "Sqrt",
     "Tan", "Tanh", "Trunc", "Y0", "Y1"}

binaryFuncs ==
    {"Atan2", "Copysign", "Dim", "Hypot", "Max", "Min", "Mod", "Nextafter",
     "Pow", "Remainder"}

\* unaryFuncs[name](x): Abs and Floor are computed, the others are opaque
UnaryApply(name, x) ==
    CASE x.k = "opq" -> Opq(name, <<x>>)
      [] name = "Abs" -> IF x.k = "nan" THEN NaN ELSE [x EXCEPT !.s = 1]
      [] name = "Floor" ->
           IF x.k # "fin" THEN x
           ELSE IF x.s = 1 THEN Fin(1, x.n \div x.d, 1)
                ELSE Fin(-1, (x.n + x.d - 1) \div x.d, 1)
      [] OTHER -> Opq(name, <<x>>)

\* binaryFuncs[name](x, y): Max, Dim and Hypot are computed (Hypot when its
\* value is rational), the others are opaque
BinaryApply(name, x, y) ==
    CASE x.k = "opq" \/ y.k = "opq" -> Opq(name, <<x, y>>)
      [] name = "Max" ->
           CASE x = Inf(1) \/ y = Inf(1) -> Inf(1)
             [] x.k = "nan" \/ y.k = "nan" -> NaN
             [] IsZero(x) /\ IsZero(y) -> IF x.s = -1 THEN y ELSE x
             [] OTHER -> IF FLess(y, x) THEN x ELSE y
      [] name = "Dim" ->
           LET v == FSub(x, y)
           IN  IF v.k = "nan" THEN NaN
               ELSE IF IsZero(v) \/ v.s = -1 THEN Fin(1, 0, 1) ELSE v
      [] name = "Hypot" ->
           CASE x.k = "inf" \/ y.k = "inf" -> Inf(1)
             [] x.k = "nan" \/ y.k = "nan" -> NaN
             [] OTHER ->
                  LET r == ISqrt(x.n * x.n * y.d * y.d + y.n * y.n * x.d * x.d)
                  IN  IF r < 0 THEN Opq(name, <<x, y>>) ELSE Fin(1, r, x.d * y.d)
      [] OTHER -> Opq(name, <<x, y>>)

\* ------------------------------------------------------------------------
\* parse.go: the RPN items.  An item is [typ, s, v, f]: typ its go type, s
\* its String(), v the value of a float64Literal, f the key of a function.

Zero == Fin(1, 0, 1)

float64Literal(s, v) == [typ |-> "float64Literal", s |-> s, v |-> v, f |-> ""]

ident(name) == [typ |-> "ident", s |-> name, v |-> Zero, f |-> ""]

uplus == [typ |-> "uplus", s |-> "u+", v |-> Zero, f |-> ""]

\* uminus with the String() of sub
uminusAsSub == [typ |-> "uminus", s |-> "-", v |-> Zero, f |-> ""]

uminus == [typ |-> "uminus", s |-> "u-", v |-> Zero, f |-> ""]

add == [typ |-> "add", s |-> "+", v |-> Zero, f |-> ""]

sub == [typ |-> "sub", s |-> "-", v |-> Zero, f |-> ""]

mul == [typ |-> "mul", s |-> "*", v |-> Zero, f |-> ""]

quo == [typ |-> "quo", s |-> "/", v |-> Zero, f |-> ""]

unaryFunc(name) == [typ |-> "unaryFunc", s |-> "math." \o name, v |-> Zero, f |-> name]

binaryFunc(name) == [typ |-> "binaryFunc", s |-> "math." \o name, v |-> Zero, f |-> name]

\* float64Literal.value and ident.value: a name the map does not hold reads
\* as the zero value of float64
operandValue(o, vars) ==
    IF o.typ = "float64Literal" THEN o.v
    ELSE IF o.s \in DOMAIN vars THEN vars[o.s] ELSE Zero

\* an eval method's outcome: the stack it wrote to, the number of items to
\* remove from its end, or a run-time panic (index out of range)
Evaled(stack, advance) == [ok |-> TRUE, stack |-> stack, advance |-> advance]

Panic == [ok |-> FALSE, stack |-> <<>>, advance |-> 0]

\* stack[l-k] = r
Put(stack, k, r) == [stack EXCEPT ![Len(stack) - k + 1] = r]

uplusEval(stack) == Evaled(stack, 0)

uminusEval(stack) ==
    LET l == Len(stack)
    IN  IF l < 1 THEN Panic ELSE Evaled(Put(stack, 1, FNeg(stack[l])), 0)

addEval(stack) ==
    LET l == Len(stack)
    IN  IF l < 2 THEN Panic ELSE Evaled(Put(stack, 2, FAdd(stack[l - 1], stack[l])), 1)

\* sub.eval with its operands exchanged
subEvalSwapped(stack) ==
    LET l == Len(stack)
    IN  IF l < 2 THEN Panic ELSE Evaled(Put(stack, 2, FSub(stack[l], stack[l - 1])), 1)

subEval(stack) ==
    LET l == Len(stack)
    IN  IF l < 2 THEN Panic ELSE Evaled(Put(stack, 2, FSub(stack[l - 1], stack[l])), 1)

mulEval(stack) ==
    LET l == Len(stack)
    IN  IF l < 2 THEN Panic ELSE Evaled(Put(stack, 2, FMul(stack[l - 1], stack[l])), 1)

\* quo.eval with a zero divisor taken for a fault
quoEvalChecked(stack) ==
    LET l == Len(stack)
    IN  IF l < 2 \/ IsZero(stack[l]) THEN Panic
        ELSE Evaled(Put(stack, 2, FQuo(stack[l - 1], stack[l])), 1)

quoEval(stack) ==
    LET l == Len(stack)
    IN  IF l < 2 THEN Panic ELSE Evaled(Put(stack, 2, FQuo(stack[l - 1], stack[l])), 1)

unaryFuncEval(e, stack) ==
    LET l == Len(stack)
    IN  IF l < 1 THEN Panic ELSE Evaled(Put(stack, 1, UnaryApply(e.f, stack[l])), 0)

binaryFuncEval(e, stack) ==
    LET l == Len(stack)
    IN  IF l < 2 THEN Panic
        ELSE Evaled(Put(stack, 2, BinaryApply(e.f, stack[l - 1], stack[l])), 1)

\* op.eval(stack), by the operator's type
opEval(op, stack) ==
    CASE op.typ = "uplus" -> uplusEval(stack)
      [] op.typ = "uminus" -> uminusEval(stack)
      [] op.typ = "add" -> addEval(stack)
      [] op.typ = "sub" -> subEval(stack)
      [] op.typ = "mul" -> mulEval(stack)
      [] op.typ = "quo" -> quoEval(stack)
      [] op.typ = "unaryFunc" -> unaryFuncEval(op, stack)
      [] op.typ = "binaryFunc" -> binaryFuncEval(op, stack)

\* the loop of evaluation.value over e.output from item i on
RECURSIVE valueLoop(_, _, _, _), advanceLoop(_, _, _, _)
valueLoop(output, i, stack, vars) ==
    IF i > Len(output) THEN [ok |-> TRUE, stack |-> stack]
    ELSE IF output[i].typ \in {"float64Literal", "ident"}
    THEN valueLoop(output, i + 1, Append(stack, operandValue(output[i], vars)), vars)
    ELSE advanceLoop(output, i, opEval(output[i], stack), vars)

\* after advance := op.eval(stack): stack = stack[:l-advance]
advanceLoop(output, i, r, vars) ==
    IF ~r.ok THEN [ok |-> FALSE, stack |-> <<>>]
    ELSE valueLoop(output, i + 1, SubSeq(r.stack, 1, Len(r.stack) - r.advance), vars)

\* evaluation.value: st is "ok" with the value v, or the way the call ends
\* the program: log.Fatal("no expressions ..."), log.Fatal("invalid
\* expression ...") or the panic of an index out of range
Outcome(st, v) == [st |-> st, v |-> v]

\* evaluation.value after its loop: the check for validity
valueEnd(r) ==
    CASE ~r.ok -> Outcome("panic: index out of range", Zero)
      [] Len(r.stack) # 1 -> Outcome("fatal: invalid expression", Zero)
      [] OTHER -> Outcome("ok", r.stack[1])

value(e, vars) ==
    IF Len(e.output) = 0 THEN Outcome("fatal: no expressions", Zero)
    ELSE valueEnd(valueLoop(e.output, 1, <<>>, vars))

\* ------------------------------------------------------------------------
\* parse.go: compiling.  An evaluation is [s, output, knownVars, parseError],
\* parseError "" being nil.

Emit(e, o) == [e EXCEPT !.output = Append(@, o)]

Fail(e, msg) == [e EXCEPT !.parseError = msg]

\* Visit, case *ast.BasicLit
VisitBasicLit(e, t) ==
    IF ~ParseFloatOk(t.name)
    THEN Fail(e, "strconv.ParseFloat: parsing " \o Str(t.name) \o ": invalid syntax")
    ELSE Emit(e, float64Literal(Str(t.name), ParseFloat(t.name)))

\* Visit, case *ast.Ident, without the look-up in knownVars
VisitIdentUnchecked(e, t) == Emit(e, ident(Str(t.name)))

\* Visit, case *ast.Ident
VisitIdent(e, t) ==
    IF Str(t.name) \notin e.knownVars
    THEN Fail(e, "unknown variable: " \o Str(t.name))
    ELSE Emit(e, ident(Str(t.name)))

\* Visit, case *ast.UnaryExpr, after ast.Walk(e, t.X)
VisitUnaryOp(e, op) ==
    CASE op = "+" -> Emit(e, uplus)
      [] op = "-" -> Emit(e, uminus)
      [] OTHER -> Fail(e, "unrecognized unary expression: " \o op)

\* Visit, case *ast.BinaryExpr, after ast.Walk(e, t.X) and ast.Walk(e, t.Y)
VisitBinaryOp(e, op) ==
    CASE op = "+" -> Emit(e, add)
      [] op = "-" -> Emit(e, sub)
      [] op = "*" -> Emit(e, mul)
      [] op = "/" -> Emit(e, quo)
      [] OTHER -> Fail(e, "unrecognized binary expression: " \o op)

\* Visit, case *ast.CallExpr, after the arguments are walked
VisitCallOp(e, name) ==
    IF name \in unaryFuncs THEN Emit(e, unaryFunc(name))
    ELSE IF name \in binaryFuncs THEN Emit(e, binaryFunc(name))
    ELSE Fail(e, "unknown math function math." \o name)

\* Visit, case *ast.CallExpr, before the arguments are walked: the error of a
\* call that is not math.<name>(...), or ""
CallTarget(t) ==
    LET fun == t.kids[1]
    IN  CASE fun.kind # "SelectorExpr" -> "unknown function call"
          [] fun.kids[1].kind # "Ident" -> "unknown function call"
          [] Str(fun.kids[1].name) # "math" ->
               "only math package functions allowed, found package "
                   \o Str(fun.kids[1].name)
          [] OTHER -> ""

RECURSIVE Walk(_, _), WalkList(_, _)

\* ast.Walk(e, node) with e.Visit as the visitor.  Once parseError is set,
\* Visit returns e for the node and for all its descendants and changes
\* nothing.
Walk(e, node) ==
    IF e.parseError # "" THEN e
    ELSE CASE node.kind = "BasicLit" -> VisitBasicLit(e, node)
           [] node.kind = "Ident" -> VisitIdent(e, node)
           [] node.kind = "CallExpr" ->
                IF CallTarget(node) # "" THEN Fail(e, CallTarget(node))
                ELSE VisitCallOp(WalkList(e, Tail(node.kids)),
                                 Str(node.kids[1].kids[2].name))
           [] node.kind = "UnaryExpr" -> VisitUnaryOp(Walk(e, node.kids[1]), node.op)
           [] node.kind = "BinaryExpr" ->
                VisitBinaryOp(Walk(Walk(e, node.kids[1]), node.kids[2]), node.op)
           [] OTHER -> WalkList(e, node.kids)

\* ast.Walk over a list of nodes, in order
WalkList(e, nodes) ==
    IF nodes = <<>> THEN e ELSE WalkList(Walk(e, Head(nodes)), Tail(nodes))

\* newEvaluation(expr, varNames): [err, v], err "" being nil
Compiled(err, v) == [err |-> err, v |-> v]

NoEvaluation == [s |-> "", output |-> <<>>, knownVars |-> {}, parseError |-> ""]

\* return v, v.parseError
Returned(v) == Compiled(v.parseError, v)

\* newEvaluation after parser.ParseExprFrom returned fexpr
populate(expr, varNames, fexpr) ==
    IF ~fexpr.ok THEN Compiled("syntax error", NoEvaluation)
    ELSE Returned(Walk([s |-> Str(expr), output |-> <<>>,
                        knownVars |-> varNames, parseError |-> ""], fexpr.node))

newEvaluation(expr, varNames) == populate(expr, varNames, ParseExprFrom(expr))

\* parseY
parseY(varNames, expr) == newEvaluation(expr, varNames)


\* the text of an element taken one character late
ElementTextLate(expr, exp) == SubSeq(expr, exp.pos + 1, exp.end)

\* parseX, the text of one element of the list: expr[exp.Pos()-1:exp.End()-1],
\* the characters of go's indexes exp.Pos()-1 to exp.End()-2, which are the
\* characters exp.Pos() to exp.End()-1 counted from 1
ElementText(expr, exp) == SubSeq(expr, exp.pos, exp.end - 1)

\* parseX, the loop over slexpr.Elts: the evaluations so far, or the first error
RECURSIVE parseXLoop(_, _, _, _), parseXNext(_, _, _, _, _)
parseXLoop(expr, elts, varNames, vs) ==
    IF elts = <<>> THEN [st |-> "ok", err |-> "", vs |-> vs]
    ELSE parseXNext(expr, elts, varNames, vs,
                    newEvaluation(ElementText(expr, Head(elts)), varNames))

\* after v, err := newEvaluation(...) for the first of elts
parseXNext(expr, elts, varNames, vs, c) ==
    IF c.err # "" THEN [st |-> "err", err |-> c.err, vs |-> <<>>]
    ELSE parseXLoop(expr, Tail(elts), varNames, Append(vs, c.v))

\* parseX after parser.ParseExprFrom returned fexpr for the wrapped text expr
parseXElts(varNames, expr, fexpr) ==
    CASE ~fexpr.ok -> [st |-> "err", err |-> "syntax error", vs |-> <<>>]
      [] fexpr.node.kind # "CompositeLit" ->
           [st |-> "panic", err |-> "interface conversion", vs |-> <<>>]
      [] OTHER -> parseXLoop(expr, Tail(fexpr.node.kids), varNames, <<>>)

\* "float64{" + expr + "}"
Wrapped(expr) == <<"f", "l", "o", "a", "t", "6", "4", "{">> \o expr \o <<"}">>

\* parseX(varNames, expr): st is "ok" with the evaluations vs, "err" with the
\* error, or "panic" when fexpr.(*ast.CompositeLit) fails
parseX(varNames, expr) ==
    parseXElts(varNames, Wrapped(expr), ParseExprFrom(Wrapped(expr)))

\* ------------------------------------------------------------------------
\* The formulas the model is run on: a catalogue (the formulas of
\* parse_test.go and of the usage text, and one or more for each construct
\* the parser model knows), and every text of at most MaxLen lexemes.
\*    1  math.Log(N)
\*    2  1.0 / N
\*    3  N*N
\*    4  Y+1
\*    5  -math.Hypot(M+N, M-N)
\*    6  +M/N
\*    7  math.Log(N), 1.0
\*    8  N*N, N, 1.0
\*    9  -math.Hypot(M+N, M-N), +M/N
\*   10  N - M - 1
\*   11  N-(M-1)
\*   12  N/M/2
\*   13  N/(M/.5)
\*   14  N-M*2
\*   15  (N-M)*2
\*   16  -(N-M)
\*   17  1/(1/N)
\*   18  math.Dim(N, M)
\*   19  math.Dim(M, N)
\*   20  math.Max(N-M, M/N)
\*   21  math.Floor(N/M)
\*   22  math.Abs(-M)
\*   23  math.Abs()
\*   24  math.Abs(N, M)
\*   25  math.Dim(N)
\*   26  math.Dim(N, M, 1)
\*   27  N[0]
\*   28  *N
\*   29  func(){}
\*   30  +func(){}
\*   31  N.M
\*   32  N{M}
\*   33  float64{N}
\*   34  Z
\*   35  N+Z
\*   36  Z(N)
\*   37  foo.Bar(N)
\*   38  math.Foo(N)
\*   39  Log(N)
\*   40  math.Pi
\*   41  math.Abs(Z)
\*   42  N.M(1)
\*   43  "abc"
\*   44  N + "a"
\*   45  N < M
\*   46  N & M
\*   47  N << 1
\*   48  !N
\*   49  ^N
\*   50  N % M
\*   51  N == M
\*   52  N +
\*   53  (N
\*   54  (the empty text)
\*   55  N,
\*   56   N ,1.0 
\*   57  math.Max(N, M), 1
\*   58  (N, M)
\*   59  N,,M
\*   60  N 1
\*   61  1} + float64{2
\*   62  1}, float64{2
\*   63  {N}, 1
Catalogue ==
    {
     <<"m", "a", "t", "h", ".", "L", "o", "g", "(", "N", ")">>,
     <<"1", ".", "0", " ", "/", " ", "N">>,
     <<"N", "*", "N">>,
     <<"Y", "+", "1">>,
     <<"-", "m", "a", "t", "h", ".", "H", "y", "p", "o", "t", "(", "M", "+", "N", ",", " ", "M", "-", "N", ")">>,
     <<"+", "M", "/", "N">>,
     <<"m", "a", "t", "h", ".", "L", "o", "g", "(", "N", ")", ",", " ", "1", ".", "0">>,
     <<"N", "*", "N", ",", " ", "N", ",", " ", "1", ".", "0">>,
     <<"-", "m", "a", "t", "h", ".", "H", "y", "p", "o", "t", "(", "M", "+", "N", ",", " ", "M", "-", "N", ")", ",", " ", "+", "M", "/", "N">>,
     <<"N", " ", "-", " ", "M", " ", "-", " ", "1">>,
     <<"N", "-", "(", "M", "-", "1", ")">>,
     <<"N", "/", "M", "/", "2">>,
     <<"N", "/", "(", "M", "/", ".", "5", ")">>,
     <<"N", "-", "M", "*", "2">>,
     <<"(", "N", "-", "M", ")", "*", "2">>,
     <<"-", "(", "N", "-", "M", ")">>,
     <<"1", "/", "(", "1", "/", "N", ")">>,
     <<"m", "a", "t", "h", ".", "D", "i", "m", "(", "N", ",", " ", "M", ")">>,
     <<"m", "a", "t", "h", ".", "D", "i", "m", "(", "M", ",", " ", "N", ")">>,
     <<"m", "a", "t", "h", ".", "M", "a", "x", "(", "N", "-", "M", ",", " ", "M", "/", "N", ")">>,
     <<"m", "a", "t", "h", ".", "F", "l", "o", "o", "r", "(", "N", "/", "M", ")">>,
     <<"m", "a", "t", "h", ".", "A", "b", "s", "(", "-", "M", ")">>,
     <<"m", "a", "t", "h", ".", "A", "b", "s", "(", ")">>,
     <<"m", "a", "t", "h", ".", "A", "b", "s", "(", "N", ",", " ", "M", ")">>,
     <<"m", "a", "t", "h", ".", "D", "i", "m", "(", "N", ")">>,
     <<"m", "a", "t", "h", ".", "D", "i", "m", "(", "N", ",", " ", "M", ",", " ", "1", ")">>,
     <<"N", "[", "0", "]">>,
     <<"*", "N">>,
     <<"f", "u", "n", "c", "(", ")", "{", "}">>,
     <<"+", "f", "u", "n", "c", "(", ")", "{", "}">>,
     <<"N", ".", "M">>,
     <<"N", "{", "M", "}">>,
     <<"f", "l", "o", "a", "t", "6", "4", "{", "N", "}">>,
     <<"Z">>,
     <<"N", "+", "Z">>,
     <<"Z", "(", "N", ")">>,
     <<"f", "o", "o", ".", "B", "a", "r", "(", "N", ")">>,
     <<"m", "a", "t", "h", ".", "F", "o", "o", "(", "N", ")">>,
     <<"L", "o", "g", "(", "N", ")">>,
     <<"m", "a", "t", "h", ".", "P", "i">>,
     <<"m", "a", "t", "h", ".", "A", "b", "s", "(", "Z", ")">>,
     <<"N", ".", "M", "(", "1", ")">>,
     <<"\"", "a", "b", "c", "\"">>,
     <<"N", " ", "+", " ", "\"", "a", "\"">>,
     <<"N", " ", "<", " ", "M">>,
     <<"N", " ", "&", " ", "M">>,
     <<"N", " ", "<", "<", " ", "1">>,
     <<"!", "N">>,
     <<"^", "N">>,
     <<"N", " ", "%", " ", "M">>,
     <<"N", " ", "=", "=", " ", "M">>,
     <<"N", " ", "+">>,
     <<"(", "N">>,
     <<>>,
     <<"N", ",">>,
     <<" ", "N", " ", ",", "1", ".", "0", " ">>,
     <<"m", "a", "t", "h", ".", "M", "a", "x", "(", "N", ",", " ", "M", ")", ",", " ", "1">>,
     <<"(", "N", ",", " ", "M", ")">>,
     <<"N", ",", ",", "M">>,
     <<"N", " ", "1">>,
     <<"1", "}", " ", "+", " ", "f", "l", "o", "a", "t", "6", "4", "{", "2">>,
     <<"1", "}", ",", " ", "f", "l", "o", "a", "t", "6", "4", "{", "2">>,
     <<"{", "N", "}", ",", " ", "1">>
    }

MaxLen == 4

\* every text of at most MaxLen of the characters N M 2 - / ( ) , and blank
Texts ==
    UNION {[1..k -> {"N", "M", "2", "-", "/", "(", ")", ",", " "}] : k \in 0..MaxLen}

\* the names of the pattern (?P<M>\d+)x(?P<N>\d+)-\d+$ as readNames gives them
EvalNames == {"", "M", "N"}

\* every map from some of the names to the values 0, 1/2, 7/2 and -2
Bindings ==
    UNION {[S -> {Zero, Fin(1, 1, 2), Fin(1, 7, 2), Fin(-1, 2, 1)}] :
              S \in SUBSET {"M", "N"}}


\* ------------------------------------------------------------------------
\* regexp, as far as main and sampleGroup use it.  A compiled pattern is
\* [names, pieces]: names are the names of its capture groups in order ("" for
\* a group without a name), and it matches the pieces one after the other
\* and then the end of the text ($).  A piece [set, min, max, grp] matches
\* min to max characters of set, as many as it can, and is the whole of
\* capture group grp when grp > 0; a group whose piece took no character
\* took no part in the match, and its submatch is the empty text.

Piece(set, min, max, grp) == [set |-> set, min |-> min, max |-> max, grp |-> grp]

\* \d+
Number(grp) == Piece(Digit, 1, 99, grp)

\*   /?(?P<N>\d+)-\d+$            the default of -vars
\*   (?P<M>\d+)x(?P<N>\d+)-\d+$   the pattern of the usage text
\*   (?P<Y>\d+)-\d+$
\*   /(?P<N>\w+)-\d+$
\*   (/)?(?P<N>\d+)-\d+$        a group without a name that may take no part
Patterns ==
    {[names |-> <<"N">>,
      pieces |-> <<Piece({"/"}, 0, 1, 0), Number(1), Piece({"-"}, 1, 1, 0), Number(0)>>],
     [names |-> <<"M", "N">>,
      pieces |-> <<Number(1), Piece({"x"}, 1, 1, 0), Number(2),
                   Piece({"-"}, 1, 1, 0), Number(0)>>],
     [names |-> <<"Y">>,
      pieces |-> <<Number(1), Piece({"-"}, 1, 1, 0), Number(0)>>],
     [names |-> <<"N">>,
      pieces |-> <<Piece({"/"}, 1, 1, 0), Piece(Letter \cup Digit, 1, 99, 1),
                   Piece({"-"}, 1, 1, 0), Number(0)>>],
     [names |-> <<"", "N">>,
      pieces |-> <<Piece({"/"}, 0, 1, 1), Number(2), Piece({"-"}, 1, 1, 0), Number(0)>>]}

\* re.SubexpNames(): the name at 0 is the one of the whole match
SubexpNames(re) == <<"">> \o re.names

\* the most characters piece k can take at i
Most(ps, s, k, i) ==
    IF k > Len(ps) THEN 0
    ELSE IF RunEnd(s, i, ps[k].set) - i > ps[k].max THEN ps[k].max
    ELSE RunEnd(s, i, ps[k].set) - i

\* piece k took n characters and r is the match of the pieces after it:
\* that match, or else the alternative
Or(n, r, alt) == IF r.ok THEN [ok |-> TRUE, lens |-> <<n>> \o r.lens] ELSE alt

\* the backtracking match of the pieces from k on at i, piece k taking n
\* characters or as many less as it must: the characters each piece took
RECURSIVE Try(_, _, _, _, _)
Try(ps, s, k, i, n) ==
    IF k > Len(ps) THEN [ok |-> i = Len(s) + 1, lens |-> <<>>]
    ELSE IF n < ps[k].min THEN [ok |-> FALSE, lens |-> <<>>]
    ELSE Or(n, Try(ps, s, k + 1, i + n, Most(ps, s, k + 1, i + n)),
            Try(ps, s, k, i, n - 1))

\* the sum of the first k of lens
RECURSIVE Sum(_, _)
Sum(lens, k) == IF k = 0 THEN 0 ELSE lens[k] + Sum(lens, k - 1)

\* the submatches of the match at i whose pieces took lens: the matched text
\* and then the text of each capture group
Submatch(re, s, i, lens) ==
    [ok |-> TRUE,
     m  |-> <<SubSeq(s, i, i + Sum(lens, Len(lens)) - 1)>>
            \o [g \in 1..Len(re.names) |->
                   LET k == CHOOSE j \in 1..Len(re.pieces) : re.pieces[j].grp = g
                   IN  SubSeq(s, i + Sum(lens, k - 1), i + Sum(lens, k) - 1)]]

\* the leftmost position of s the pattern matches at, or 0
Leftmost(re, s) ==
    LET at == {i \in 1..Len(s) + 1 :
                  Try(re.pieces, s, 1, i, Most(re.pieces, s, 1, i)).ok}
    IN  IF at = {} THEN 0 ELSE CHOOSE i \in at : \A j \in at : i <= j

\* re.FindStringSubmatch(s): [ok, m], ok FALSE being nil
FindAt(re, s, i) ==
    IF i = 0 THEN [ok |-> FALSE, m |-> <<>>]
    ELSE Submatch(re, s, i, Try(re.pieces, s, 1, i, Most(re.pieces, s, 1, i)).lens)

FindStringSubmatch(re, s) == FindAt(re, s, Leftmost(re, s))

\* strings.TrimRight(s, cutset): s without its trailing characters that
\* occur in cutset
RECURSIVE TrimRight(_, _)
TrimRight(s, cutset) ==
    IF s # <<>> /\ s[Len(s)] \in {cutset[j] : j \in 1..Len(cutset)}
    THEN TrimRight(SubSeq(s, 1, Len(s) - 1), cutset)
    ELSE s

\* ------------------------------------------------------------------------
\* fit.go: sampleGroup

\* samp
samp(x, y) == [x |-> x, y |-> y]

\* a loop over SubexpNames that leaves the last name out of vars
CapturedButLast(names, input) ==
    [n \in {names[i] : i \in 2..Len(names) - 1} |->
        ParseFloat(input[CHOOSE i \in 2..Len(names) - 1 :
                            names[i] = n /\ \A j \in i + 1..Len(names) - 1 : names[j] # n])]

\* sampleGroup, the loop over SubexpNames: vars
Captured(names, input) ==
    [n \in {names[i] : i \in 2..Len(names)} |->
        ParseFloat(input[CHOOSE i \in 2..Len(names) :
                            names[i] = n /\ \A j \in i + 1..Len(names) : names[j] # n])]

\* vars["Y"] = the field of b that yVar names
WithY(binds, b, yVar) ==
    [n \in DOMAIN binds \cup {"Y"} |-> IF n = "Y" THEN b[yVar] ELSE binds[n]]

\* what one pass of the loop over benchSet did: the benchmark, how far the
\* pass went, the group and the variables, and each call of Eval
Pass(name, st, group, binds, x, y) ==
    [name |-> name, st |-> st, group |-> group, vars |-> binds, x |-> x, y |-> y]

\* how the calls of Eval ended: "ok", or the way the first that did not
\* return ended the process
Ended(outs) ==
    IF \A k \in 1..Len(outs) : outs[k].st = "ok" THEN "ok"
    ELSE outs[CHOOSE k \in 1..Len(outs) :
                  outs[k].st # "ok" /\ \A j \in 1..k - 1 : outs[j].st = "ok"].st

\* the calls that were made: a call that does not return is the last
Made(outs) ==
    SubSeq(outs, 1, IF Ended(outs) = "ok" THEN Len(outs)
                    ELSE CHOOSE k \in 1..Len(outs) :
                             outs[k].st # "ok" /\ \A j \in 1..k - 1 : outs[j].st = "ok")

\* sampleGroup, one pass from "eval y" on, x being what "eval x" did
YPass(name, bs, group, binds, yE, yVar, x) ==
    Pass(name, "evaluated", group, binds, Made(x),
         IF Ended(x) # "ok" THEN <<>>
         ELSE Made([j \in 1..Len(bs) |->
                       IF yVar \in DOMAIN bs[j]
                       THEN value(yE, WithY(binds, bs[j], yVar))
                       ELSE Outcome("panic: unknown YVar", Zero)]))

\* sampleGroup, one pass from "eval x" on
EvalPass(name, bs, group, binds, xs, yE, yVar) ==
    YPass(name, bs, group, binds, yE, yVar, [i \in 1..Len(xs) |-> value(xs[i], binds)])

\* a MatchPass that goes on without the captures that are no numbers
MatchPassLax(name, bs, re, xs, yE, yVar, input) ==
    IF ~input.ok THEN Pass(name, "no match", <<>>, <<>>, <<>>, <<>>)
    ELSE EvalPass(name, bs, TrimRight(name, input.m[1]),
                  IF \E i \in 2..Len(input.m) : ~ParseFloatOk(input.m[i]) THEN <<>>
                  ELSE Captured(SubexpNames(re), input.m), xs, yE, yVar)

\* sampleGroup, one pass after input := inre.FindStringSubmatch(name)
MatchPass(name, bs, re, xs, yE, yVar, input) ==
    IF ~input.ok THEN Pass(name, "no match", <<>>, <<>>, <<>>, <<>>)
    ELSE IF \E i \in 2..Len(input.m) : ~ParseFloatOk(input.m[i])
    THEN Pass(name, "skipped", TrimRight(name, input.m[1]), <<>>, <<>>, <<>>)
    ELSE EvalPass(name, bs, TrimRight(name, input.m[1]),
                  Captured(SubexpNames(re), input.m), xs, yE, yVar)

\* the values of calls that returned
Values(outs) == [k \in 1..Len(outs) |-> outs[k].v]

\* x repeated n times: s.x = append(s.x, x...) for each of n runs
RECURSIVE Rows(_, _)
Rows(x, n) == IF n = 0 THEN <<>> ELSE x \o Rows(x, n - 1)

\* a Sampled that appends x once for a benchmark, whatever its runs
SampledOnce(old, p) ==
    [g \in DOMAIN old \cup {p.group} |->
        IF g # p.group THEN old[g]
        ELSE IF g \in DOMAIN old
        THEN samp(old[g].x \o Values(p.x), old[g].y \o Values(p.y))
        ELSE samp(Values(p.x), Values(p.y))]

\* samps[groupName] = s at the end of a pass
Sampled(old, p) ==
    [g \in DOMAIN old \cup {p.group} |->
        IF g # p.group THEN old[g]
        ELSE IF g \in DOMAIN old
        THEN samp(old[g].x \o Rows(Values(p.x), Len(p.y)), old[g].y \o Values(p.y))
        ELSE samp(Rows(Values(p.x), Len(p.y)), Values(p.y))]

\* ------------------------------------------------------------------------
\* The command lines and benchmark files main is run on

validYs == {"NsPerOp", "AllocedBytesPerOp", "AllocsPerOp", "MBPerS"}

\* a parse.Benchmark: the measurements of one line
Benchmark(ns, bytes, allocs) ==
    [NsPerOp |-> Fin(1, ns, 1), AllocedBytesPerOp |-> Fin(1, bytes, 1),
     AllocsPerOp |-> Fin(1, allocs, 1), MBPerS |-> Zero]

\* the lines a file may hold, by benchmark name:
\*   BenchmarkF/8-4 (twice), BenchmarkF/2-4, BenchmarkF/0-4, BenchmarkG2x0-4,
\*   BenchmarkH, BenchmarkF/a-4, BenchmarkF4/8-4 (twice)
Lines ==
    [name \in {<<"B", "e", "n", "c", "h", "m", "a", "r", "k", "F", "/", "8", "-", "4">>,
               <<"B", "e", "n", "c", "h", "m", "a", "r", "k", "F", "/", "2", "-", "4">>,
               <<"B", "e", "n", "c", "h", "m", "a", "r", "k", "F", "/", "0", "-", "4">>,
               <<"B", "e", "n", "c", "h", "m", "a", "r", "k", "G", "2", "x", "0", "-", "4">>,
               <<"B", "e", "n", "c", "h", "m", "a", "r", "k", "H">>,
               <<"B", "e", "n", "c", "h", "m", "a", "r", "k", "F", "/", "a", "-", "4">>,
               <<"B", "e", "n", "c", "h", "m", "a", "r", "k", "F", "4", "/", "8", "-", "4">>}
     |-> CASE name[Len(name) - 2] = "8" ->
                <<Benchmark(9, 16, 1), Benchmark(7, 48, 2)>>
           [] name[Len(name) - 2] = "2" -> <<Benchmark(3, 24, 1)>>
           [] OTHER -> <<Benchmark(1, 8, 3)>>]

MaxBench == 3

\* the parse.Set of a file of at most MaxBench benchmarks
BenchSets ==
    {[name \in S |-> Lines[name]] :
        S \in {T \in SUBSET DOMAIN Lines : Cardinality(T) <= MaxBench}}

\*   N, 1.0      N, Y      1.0 / N      N/M, M      Z      math.Abs()
\*   1} + float64{2
XTransforms ==
    {<<"N", ",", " ", "1", ".", "0">>,
     <<"N", ",", " ", "Y">>,
     <<"1", ".", "0", " ", "/", " ", "N">>,
     <<"N", "/", "M", ",", " ", "M">>,
     <<"Z">>,
     <<"m", "a", "t", "h", ".", "A", "b", "s", "(", ")">>,
     <<"1", "}", " ", "+", " ", "f", "l", "o", "a", "t", "6", "4", "{", "2">>}

\*   Y      Y / N      Y +      Y*Z
YTransforms ==
    {<<"Y">>, <<"Y", " ", "/", " ", "N">>, <<"Y", " ", "+">>, <<"Y", "*", "Z">>}

\* the flags of a command line
Flags ==
    [vars : Patterns, xtransform : XTransforms, ytransform : YTransforms,
     response : {"NsPerOp", "AllocsPerOp", "nsperop"}]

\* the flags' default values
Defaults ==
    [vars |-> [names |-> <<"N">>,
               pieces |-> <<Piece({"/"}, 0, 1, 0), Number(1),
                            Piece({"-"}, 1, 1, 0), Number(0)>>],
     xtransform |-> <<"N", ",", " ", "1", ".", "0">>,
     ytransform |-> <<"Y">>,
     response |-> "NsPerOp"]

\* ------------------------------------------------------------------------
\* State

VARIABLES
    \* compiling and evaluating one formula, as TestParse does
    text,       \* the formula
    entry,      \* "" before it is compiled, then "parseX" or "parseY"
    compiled,   \* what the entry point returned: [st, err, vs]
    picked,     \* the index in compiled.vs of the evaluation last run, or 0
    binding,    \* the map of variable values it was run on
    outcome,    \* what evaluation.value did
    again,      \* what a second call of value on the same evaluation did
    \* main
    pc,         \* the statement of main to run next
    flags,      \* flagInputMatch (compiled), flagXTransform, flagYTransform, flagYVar
    args,       \* flag.Args()
    varNames,   \* main's varNames
    xExprs,     \* what parseX returned: [st, err, vs]
    yExpr,      \* what parseY returned: [err, v]
    exit,       \* how the process ended: [st, msg], st "" while it runs
    opened,     \* os.Open returned the file
    benchSet,   \* the parse.Set read from the file
    todo,       \* the names sampleGroup's loop has still to range over
    passes,     \* what each pass of sampleGroup's loop did, in order
    samps,      \* sampleGroup's samps
    fits,       \* main's fits: for each group what estimate returned, [st, m]
    rsquares,   \* main's rsquares
    cints,      \* main's cints
    report      \* writeReport's table as it is written: the rows of cells

evalVars == <<text, entry, compiled, picked, binding, outcome, again>>

mainVars ==
    <<pc, flags, args, varNames, xExprs, yExpr, exit, opened, benchSet, todo,
      passes, samps, fits, rsquares, cints, report>>

vars == <<evalVars, mainVars>>

NotCompiled == [st |-> "", err |-> "", vs |-> <<>>]

NoReport == <<>>

\* the result of parseY in the form of parseX's
One(c) ==
    IF c.err # "" THEN [st |-> "err", err |-> c.err, vs |-> <<>>]
    ELSE [st |-> "ok", err |-> "", vs |-> <<c.v>>]

\* the formula t before it is compiled
EvalAt(t) ==
    /\ text = t
    /\ entry = ""
    /\ compiled = NotCompiled
    /\ picked = 0
    /\ binding = <<>>
    /\ outcome = Outcome("", Zero)
    /\ again = Outcome("", Zero)

\* main at statement p of a run with the flags f and the arguments a, before
\* anything is done
MainAt(p, f, a) ==
    /\ pc = p
    /\ flags = f
    /\ args = a
    /\ varNames = {}
    /\ xExprs = NotCompiled
    /\ yExpr = Compiled("", NoEvaluation)
    /\ exit = [st |-> "", msg |-> ""]
    /\ opened = FALSE
    /\ benchSet = <<>>
    /\ todo = {}
    /\ passes = <<>>
    /\ samps = <<>>
    /\ fits = <<>>
    /\ rsquares = <<>>
    /\ cints = <<>>
    /\ report = NoReport

\* ------------------------------------------------------------------------
\* Compiling and evaluating one formula (TestParse's steps on any formula)

EvalInit == (\E t \in Catalogue \cup Texts : EvalAt(t)) /\ MainAt("off", Defaults, <<>>)

\* yExpr, err := parseY(names, tt.ytrans)
CallParseY ==
    /\ entry = ""
    /\ pc = "off"
    /\ entry' = "parseY"
    /\ compiled' = One(parseY(EvalNames, text))
    /\ UNCHANGED <<text, picked, binding, outcome, again, mainVars>>

\* xExpr, err := parseX(names, tt.xtrans)
CallParseX ==
    /\ entry = ""
    /\ pc = "off"
    /\ entry' = "parseX"
    /\ compiled' = parseX(EvalNames, text)
    /\ UNCHANGED <<text, picked, binding, outcome, again, mainVars>>

\* expr.value(tt.vars) for one of the evaluations returned
CallValue ==
    /\ entry # ""
    /\ compiled.st = "ok"
    /\ picked = 0
    /\ \E i \in 1..Len(compiled.vs), b \in Bindings :
          /\ picked' = i
          /\ binding' = b
          /\ outcome' = value(compiled.vs[i], b)
    /\ UNCHANGED <<text, entry, compiled, again, mainVars>>

\* expr.value(tt.vars) once more, with the binding the first call read and
\* dropped every entry of
CallValueAgainCleared ==
    /\ picked # 0
    /\ outcome.st = "ok"
    /\ again.st = ""
    /\ again' = value(compiled.vs[picked], <<>>)
    /\ UNCHANGED <<text, entry, compiled, picked, binding, outcome, mainVars>>

\* expr.value(tt.vars) once more on the same evaluation and the same map,
\* after a first call that returned: value keeps its stack in a local, reads
\* e.output and vars and assigns to neither
CallValueAgain ==
    /\ picked # 0
    /\ outcome.st = "ok"
    /\ again.st = ""
    /\ again' = value(compiled.vs[picked], binding)
    /\ UNCHANGED <<text, entry, compiled, picked, binding, outcome, mainVars>>

EvalNext == CallParseY \/ CallParseX \/ CallValue \/ CallValueAgain

EvalSpec == EvalInit /\ [][EvalNext]_vars

\* ------------------------------------------------------------------------
\* main.go: main, one action for each statement that can end the process
\* and for each pass of a loop over a map

\* log.Fatal
Fatal(msg) == [st |-> "fatal", msg |-> msg]

\* a run-time panic
Panicked(msg) == [st |-> "panic", msg |-> msg]

Goto(p) == pc' = p /\ exit' = exit

Die(e) == pc' = "exit" /\ exit' = e

\* the message of main 131 (there with Y in backquotes)
Reserved == "Y is reserved and cannot be used as a named expression in vars."

Init ==
    /\ EvalAt(<<>>)
    /\ \E f \in Flags, a \in {<<>>, <<"bench.txt">>, <<"old.txt", "new.txt">>} :
           MainAt("main", f, a)

\* readNames
readNames(re) == {SubexpNames(re)[i] : i \in 1..Len(SubexpNames(re))}

\* main 116-125: flag.Parse and the check of the arguments
ParseArgs ==
    /\ pc = "main"
    /\ IF Len(args) > 1 THEN Die(Fatal("too many input arguments"))
       ELSE Goto("readNames")
    /\ UNCHANGED <<evalVars, flags, args, varNames, xExprs, yExpr, opened, benchSet,
                   todo, passes, samps, fits, rsquares, cints, report>>

\* a ReadNames that lets the name Y pass
ReadNamesLax ==
    /\ pc = "readNames"
    /\ varNames' = readNames(flags.vars)
    /\ Goto("parseX")
    /\ UNCHANGED <<evalVars, flags, args, xExprs, yExpr, opened, benchSet, todo,
                   passes, samps, fits, rsquares, cints, report>>

\* main 127-132: the names of the pattern, of which none may be Y
ReadNames ==
    /\ pc = "readNames"
    /\ varNames' = readNames(flags.vars)
    /\ IF "Y" \in varNames' THEN Die(Fatal(Reserved)) ELSE Goto("parseX")
    /\ UNCHANGED <<evalVars, flags, args, xExprs, yExpr, opened, benchSet, todo,
                   passes, samps, fits, rsquares, cints, report>>

\* a main that makes Y a name before the explanatory list is compiled
CompileXWithY ==
    /\ pc = "parseX"
    /\ xExprs' = parseX(varNames \cup {"Y"}, flags.xtransform)
    /\ CASE xExprs'.st = "err" -> Die(Fatal(xExprs'.err))
         [] xExprs'.st = "panic" -> Die(Panicked(xExprs'.err))
         [] OTHER -> Goto("parseY")
    /\ UNCHANGED <<evalVars, flags, args, varNames, yExpr, opened, benchSet, todo,
                   passes, samps, fits, rsquares, cints, report>>

\* main 134-137: xExprs, err := parseX(varNames, flagXTransform)
CompileX ==
    /\ pc = "parseX"
    /\ xExprs' = parseX(varNames, flags.xtransform)
    /\ CASE xExprs'.st = "err" -> Die(Fatal(xExprs'.err))
         [] xExprs'.st = "panic" -> Die(Panicked(xExprs'.err))
         [] OTHER -> Goto("parseY")
    /\ UNCHANGED <<evalVars, flags, args, varNames, yExpr, opened, benchSet, todo,
                   passes, samps, fits, rsquares, cints, report>>

\* main 139-143: Y becomes a name, and yExpr, err := parseY(varNames, flagYTransform).
\* The knownVars of the evaluations of xExprs is the same map as varNames.
CompileY ==
    /\ pc = "parseY"
    /\ varNames' = varNames \cup {"Y"}
    /\ xExprs' = [xExprs EXCEPT
                     !.vs = [i \in 1..Len(@) |-> [@[i] EXCEPT !.knownVars = varNames']]]
    /\ yExpr' = parseY(varNames', flags.ytransform)
    /\ IF yExpr'.err # "" THEN Die(Fatal(yExpr'.err)) ELSE Goto("response")
    /\ UNCHANGED <<evalVars, flags, args, opened, benchSet, todo, passes, samps,
                   fits, rsquares, cints, report>>

\* a CheckResponse that lets every name pass
CheckResponseLax ==
    /\ pc = "response"
    /\ Goto("open")
    /\ UNCHANGED <<evalVars, flags, args, varNames, xExprs, yExpr, opened, benchSet,
                   todo, passes, samps, fits, rsquares, cints, report>>

\* main 145-155: flagYVar is one of validYs
CheckResponse ==
    /\ pc = "response"
    /\ IF flags.response \in validYs THEN Goto("open")
       ELSE Die(Fatal("invalid response: " \o flags.response))
    /\ UNCHANGED <<evalVars, flags, args, varNames, xExprs, yExpr, opened, benchSet,
                   todo, passes, samps, fits, rsquares, cints, report>>

\* main 157-160: f, err := os.Open(args[0]); the file may be missing
OpenFile ==
    /\ pc = "open"
    /\ IF Len(args) = 0
       THEN opened' = FALSE /\ Die(Panicked("index out of range"))
       ELSE \E ok \in BOOLEAN :
                /\ opened' = ok
                /\ IF ok THEN Goto("parseSet")
                   ELSE Die(Fatal("open " \o args[1] \o ": no such file or directory"))
    /\ UNCHANGED <<evalVars, flags, args, varNames, xExprs, yExpr, benchSet, todo,
                   passes, samps, fits, rsquares, cints, report>>

\* main 161-164: benchSet, err := parse.ParseSet(f); reading may fail
ParseSet ==
    /\ pc = "parseSet"
    /\ \/ /\ Die(Fatal("read error"))
          /\ UNCHANGED <<benchSet, todo>>
       \/ \E set \in BenchSets :
              /\ benchSet' = set
              /\ todo' = DOMAIN set
              /\ Goto(IF DOMAIN set = {} THEN "report" ELSE "sample")
    /\ UNCHANGED <<evalVars, flags, args, varNames, xExprs, yExpr, opened, passes,
                   samps, fits, rsquares, cints, report>>

\* fit.go 29-85: one pass of sampleGroup's loop, for a benchmark the range
\* has not yet given; after the last pass main goes on
SamplePass ==
    /\ pc = "sample"
    /\ \E name \in todo :
         \E p \in {MatchPass(name, benchSet[name], flags.vars, xExprs.vs, yExpr.v,
                             flags.response, FindStringSubmatch(flags.vars, name))} :
            /\ passes' = Append(passes, p)
            /\ todo' = todo \ {name}
            /\ samps' = IF p.st = "evaluated" /\ Ended(p.x \o p.y) = "ok"
                        THEN Sampled(samps, p) ELSE samps
            /\ IF p.st = "evaluated" /\ Ended(p.x \o p.y) # "ok"
               THEN \E st \in {Ended(p.x \o p.y)} :
                        Die(IF st \in {"fatal: no expressions", "fatal: invalid expression"}
                            THEN Fatal(st) ELSE Panicked(st))
               ELSE Goto(CASE todo' # {} -> "sample"
                           [] DOMAIN samps' = {} -> "report"
                           [] OTHER -> "estimate")
    /\ UNCHANGED <<evalVars, flags, args, varNames, xExprs, yExpr, opened, benchSet,
                   fits, rsquares, cints, report>>

\* the sum of u[k] * v[k], added from the first on as the loops of stats do
RECURSIVE Dot(_, _)
Dot(u, v) ==
    IF u = <<>> THEN Zero
    ELSE FAdd(Dot(SubSeq(u, 1, Len(u) - 1), SubSeq(v, 1, Len(v) - 1)),
              FMul(u[Len(u)], v[Len(v)]))

\* what lapack64.Gels and mat64's Mul and Inverse work on, for a sample of
\* one or two columns: XtX = ((a, b), (b, c)), Xty = (p, q), det of XtX,
\* and whether every number is finite
normal(s) ==
    LET w  == Len(s.x) \div Len(s.y)
        c1 == [r \in 1..Len(s.y) |-> s.x[(r - 1) * w + 1]]
        c2 == [r \in 1..Len(s.y) |-> s.x[(r - 1) * w + 2]]
    IN  [w |-> w,
         finite |-> /\ \A k \in 1..Len(s.x) : s.x[k].k = "fin"
                    /\ \A k \in 1..Len(s.y) : s.y[k].k = "fin",
         a |-> Dot(c1, c1),
         b |-> IF w = 2 THEN Dot(c1, c2) ELSE Zero,
         c |-> IF w = 2 THEN Dot(c2, c2) ELSE Fin(1, 1, 1),
         p |-> Dot(c1, s.y),
         q |-> IF w = 2 THEN Dot(c2, s.y) ELSE Zero,
         det |-> IF w = 2
                 THEN FSub(FMul(Dot(c1, c1), Dot(c2, c2)), FMul(Dot(c1, c2), Dot(c1, c2)))
                 ELSE Dot(c1, c1)]

\* fit.go 91-119: estimate, each way it can end. Gels gives the least
\* squares solution of a finite sample of full rank; of any other sample it
\* reports failure or gives numbers that are not known. y.Data has len(s.y)
\* numbers, and y.Data[:x.Cols] of more columns than that is out of range.
estimate(s) ==
    IF Len(s.x) \div Len(s.y) > Len(s.y)
    THEN {[st |-> "nil", m |-> <<>>], [st |-> "panic", m |-> <<>>]}
    ELSE LET n == normal(s)
         IN  IF n.w \in {1, 2} /\ n.finite /\ ~IsZero(n.det)
             THEN {[st |-> "ok",
                    m |-> SubSeq(<<FQuo(FSub(FMul(n.p, n.c), FMul(n.b, n.q)), n.det),
                                   FQuo(FSub(FMul(n.a, n.q), FMul(n.b, n.p)), n.det)>>,
                                 1, n.w)]}
             ELSE {[st |-> "nil", m |-> <<>>],
                   [st |-> "ok", m |-> [j \in 1..n.w |-> Opq("Gels", <<Fin(1, j, 1)>>)]]}

\* a stats whose total sum of squares is taken about the mean of y
statsCentered(m, s) ==
    LET stride == Len(s.x) \div Len(s.y)
        yHat == [i \in 1..Len(s.y) |->
                    Dot(m, SubSeq(s.x, (i - 1) * stride + 1, i * stride))]
        res  == [i \in 1..Len(s.y) |-> FSub(yHat[i], s.y[i])]
        mean == FQuo(Dot(s.y, [i \in 1..Len(s.y) |-> Fin(1, 1, 1)]), Fin(1, Len(s.y), 1))
        dev  == [i \in 1..Len(s.y) |-> FSub(s.y[i], mean)]
    IN  [r2 |-> FSub(Fin(1, 1, 1), FQuo(Dot(res, res), Dot(dev, dev))),
         cint |-> [i \in 1..stride |-> NaN]]

\* fit.go 122-149: stats. conf95 is not among the sources: its result is
\* kept as the call. The inverse of a singular or not finite XtX is not known.
stats(m, s) ==
    LET stride == Len(s.x) \div Len(s.y)
        yHat == [i \in 1..Len(s.y) |->
                    Dot(m, SubSeq(s.x, (i - 1) * stride + 1, i * stride))]
        res  == [i \in 1..Len(s.y) |-> FSub(yHat[i], s.y[i])]
        RSS  == Dot(res, res)
        YSS  == Dot(s.y, s.y)
        dof  == Len(s.y) - stride
        mse  == FQuo(RSS, IF dof < 0 THEN Fin(-1, -dof, 1) ELSE Fin(1, dof, 1))
        n    == normal(s)
        XTX  == IF stride \in {1, 2} /\ n.finite /\ ~IsZero(n.det)
                THEN <<FQuo(n.c, n.det), FQuo(n.a, n.det)>>
                ELSE [i \in 1..2 |-> Opq("Inverse", <<Fin(1, i, 1)>>)]
    IN  [r2 |-> FSub(Fin(1, 1, 1), FQuo(RSS, YSS)),
         cint |-> [i \in 1..stride |->
                      Opq("conf95", <<Opq("Sqrt", <<FMul(XTX[i], mse)>>),
                                      IF dof < 0 THEN Fin(-1, -dof, 1)
                                      ELSE Fin(1, dof, 1)>>)]]

\* main 169-179: one pass of the loop over samps
Estimate ==
    /\ pc = "estimate"
    /\ \E g \in DOMAIN samps \ DOMAIN fits :
         \E e \in estimate(samps[g]) :
            IF e.st = "panic"
            THEN /\ Die(Panicked("slice bounds out of range"))
                 /\ UNCHANGED <<fits, rsquares, cints>>
            ELSE /\ fits' = [h \in DOMAIN fits \cup {g} |-> IF h = g THEN e ELSE fits[h]]
                 /\ IF e.st = "nil" THEN UNCHANGED <<rsquares, cints>>
                    ELSE \E st \in {stats(e.m, samps[g])} :
                             /\ rsquares' = [h \in DOMAIN rsquares \cup {g} |->
                                                IF h = g THEN st.r2 ELSE rsquares[h]]
                             /\ cints' = [h \in DOMAIN cints \cup {g} |->
                                             IF h = g THEN st.cint ELSE cints[h]]
                 /\ Goto(IF DOMAIN fits' = DOMAIN samps THEN "report" ELSE "estimate")
    /\ UNCHANGED <<evalVars, flags, args, varNames, xExprs, yExpr, opened, benchSet,
                   todo, passes, samps, report>>

\* a row of placeholders that is one column short
coeffsShort(n, group) ==
    [k \in 1..n + 1 |->
        CASE k = 1 -> [s |-> Str(group), b |-> Zero, c |-> Zero]
          [] OTHER -> [s |-> "~", b |-> Zero, c |-> Zero]]

\* report.go 82-104: coeffs, the row of a group in a table of n explanatory
\* terms. A cell is [s, b, c]: the text s, or for a coefficient the Sprintf
\* of b and its half-width c (the format written here with +- for the sign
\* of the source and * for the precision, which the source takes from the
\* logarithms of b and c), and for R^2 the Sprintf of b.
coeffs(n, group) ==
    [k \in 1..n + 2 |->
        CASE k = 1 -> [s |-> Str(group), b |-> Zero, c |-> Zero]
          [] fits[group].st = "nil" -> [s |-> "~", b |-> Zero, c |-> Zero]
          [] k - 1 <= Len(fits[group].m) ->
               [s |-> "%.*e+-%.1e", b |-> fits[group].m[k - 1], c |-> cints[group][k - 1]]
          [] k = Len(fits[group].m) + 2 -> [s |-> "%g", b |-> rsquares[group], c |-> Zero]
          [] OTHER -> [s |-> "", b |-> Zero, c |-> Zero]]

\* report.go 66-172: writeReport. The table is the heading, put in by the
\* first pass of the loop over fits, and one row for each group in the order
\* the range over the map gives them; the first row of the table is read
\* also when fits has no group and the table is empty.
WriteReport ==
    /\ pc = "report"
    /\ IF DOMAIN fits = {}
       THEN report' = report /\ Die(Panicked("index out of range"))
       ELSE /\ \E order \in {f \in [1..Cardinality(DOMAIN fits) -> DOMAIN fits] :
                                \A i, j \in DOMAIN f : f[i] = f[j] => i = j} :
                 report' =
                     <<[k \in 1..Len(xExprs.vs) + 2 |->
                          [s |-> (<<"group \\ " \o yExpr.v.s \o " ~">>
                                     \o [i \in 1..Len(xExprs.vs) |-> xExprs.vs[i].s]
                                     \o <<"R^2">>)[k],
                           b |-> Zero, c |-> Zero]]>>
                     \o [r \in DOMAIN order |-> coeffs(Len(xExprs.vs), order[r])]
            /\ Die([st |-> "done", msg |-> ""])
    /\ UNCHANGED <<evalVars, flags, args, varNames, xExprs, yExpr, opened, benchSet,
                   todo, passes, samps, fits, rsquares, cints>>

Next ==
    \/ ParseArgs
    \/ ReadNames
    \/ CompileX
    \/ CompileY
    \/ CheckResponse
    \/ OpenFile
    \/ ParseSet
    \/ SamplePass
    \/ Estimate
    \/ WriteReport

Spec == Init /\ [][Next]_vars

\* ------------------------------------------------------------------------
\* What the formulas mean, read off the expression tree: the reference the
\* compiled programs are compared with.

Undef == [k |-> "undef"]

\* a unary sign or a unary function applied to x
Direct1(op, x) ==
    CASE x = Undef -> Undef
      [] op = "+" -> x
      [] op = "-" -> FNeg(x)
      [] op \in unaryFuncs -> UnaryApply(op, x)
      [] OTHER -> Undef

\* x op y, or the binary function op of x and y
Direct2(op, x, y) ==
    CASE x = Undef \/ y = Undef -> Undef
      [] op = "+" -> FAdd(x, y)
      [] op = "-" -> FSub(x, y)
      [] op = "*" -> FMul(x, y)
      [] op = "/" -> FQuo(x, y)
      [] op \in binaryFuncs -> BinaryApply(op, x, y)
      [] OTHER -> Undef

\* the value of the expression tree under the binding b; Undef when the
\* tree has a construct with no value (a node outside the grammar, a call
\* with the wrong number of arguments, a variable b does not bind)
RECURSIVE TreeValue(_, _)
TreeValue(node, b) ==
    CASE node.kind = "BasicLit" ->
           IF ParseFloatOk(node.name) THEN ParseFloat(node.name) ELSE Undef
      [] node.kind = "Ident" ->
           IF Str(node.name) \in DOMAIN b THEN b[Str(node.name)] ELSE Undef
      [] node.kind = "ParenExpr" -> TreeValue(node.kids[1], b)
      [] node.kind = "UnaryExpr" -> Direct1(node.op, TreeValue(node.kids[1], b))
      [] node.kind = "BinaryExpr" ->
           Direct2(node.op, TreeValue(node.kids[1], b), TreeValue(node.kids[2], b))
      [] node.kind = "CallExpr" /\ CallTarget(node) = "" /\ Len(node.kids) = 2 ->
           IF Str(node.kids[1].kids[2].name) \in unaryFuncs
           THEN Direct1(Str(node.kids[1].kids[2].name), TreeValue(node.kids[2], b))
           ELSE Undef
      [] node.kind = "CallExpr" /\ CallTarget(node) = "" /\ Len(node.kids) = 3 ->
           IF Str(node.kids[1].kids[2].name) \in binaryFuncs
           THEN Direct2(Str(node.kids[1].kids[2].name),
                        TreeValue(node.kids[2], b), TreeValue(node.kids[3], b))
           ELSE Undef
      [] OTHER -> Undef

\* the post-order traversal of a list of expression trees, as the strings of
\* the instructions: operands before their operator, arguments before their
\* function, parentheses leaving no trace
RECURSIVE PostOrder(_)
PostOrder(nodes) ==
    IF nodes = <<>> THEN <<>>
    ELSE LET n == Head(nodes)
         IN  (CASE n.kind \in {"BasicLit", "Ident"} -> <<Str(n.name)>>
                [] n.kind = "ParenExpr" -> PostOrder(n.kids)
                [] n.kind = "UnaryExpr" -> Append(PostOrder(n.kids), "u" \o n.op)
                [] n.kind = "BinaryExpr" -> Append(PostOrder(n.kids), n.op)
                [] n.kind = "CallExpr" ->
                     Append(PostOrder(Tail(n.kids)),
                            "math." \o Str(n.kids[1].kids[2].name))
                [] OTHER -> <<>>)
             \o PostOrder(Tail(nodes))

\* the trees are of the accepted grammar: number literals, identifiers,
\* binary + - * /, unary + and -, parentheses and math.Function(args) calls
RECURSIVE InGrammar(_)
InGrammar(nodes) ==
    \A k \in 1..Len(nodes) :
        LET n == nodes[k]
        IN  CASE n.kind = "BasicLit" -> n.op \in {"INT", "FLOAT"}
              [] n.kind = "Ident" -> TRUE
              [] n.kind = "ParenExpr" -> InGrammar(n.kids)
              [] n.kind = "UnaryExpr" -> n.op \in {"+", "-"} /\ InGrammar(n.kids)
              [] n.kind = "BinaryExpr" ->
                   n.op \in {"+", "-", "*", "/"} /\ InGrammar(n.kids)
              [] n.kind = "CallExpr" -> CallTarget(n) = "" /\ InGrammar(Tail(n.kids))
              [] OTHER -> FALSE

\* one of the trees has a bare identifier that names holds not, a call whose
\* package prefix is not math, or a math call of a function in neither list
RECURSIVE HasUnknown(_, _)
HasUnknown(nodes, names) ==
    \E k \in 1..Len(nodes) :
        LET n == nodes[k]
        IN  CASE n.kind = "Ident" -> Str(n.name) \notin names
              [] n.kind = "CallExpr" ->
                   \/ CallTarget(n) # ""
                   \/ Str(n.kids[1].kids[2].name) \notin unaryFuncs \cup binaryFuncs
                   \/ HasUnknown(Tail(n.kids), names)
              [] OTHER -> HasUnknown(n.kids, names)

\* the names of the variables the program e reads
Referenced(e) ==
    {e.output[k].s : k \in {j \in 1..Len(e.output) : e.output[j].typ = "ident"}}

\* the String() of each item of an instruction sequence
Strings(output) == [k \in 1..Len(output) |-> output[k].s]

\* the pieces of a text between the commas that lie outside every bracket
RECURSIVE SplitTop(_, _, _, _)
SplitTop(cs, depth, cur, acc) ==
    IF cs = <<>> THEN Append(acc, cur)
    ELSE IF Head(cs) = "," /\ depth = 0
    THEN SplitTop(Tail(cs), 0, <<>>, Append(acc, cur))
    ELSE SplitTop(Tail(cs),
                  CASE Head(cs) \in {"(", "[", "{"} -> depth + 1
                    [] Head(cs) \in {")", "]", "}"} -> depth - 1
                    [] OTHER -> depth,
                  Append(cur, Head(cs)), acc)

\* a text without the blanks around it
RECURSIVE Trim(_)
Trim(cs) ==
    CASE cs = <<>> -> cs
      [] Head(cs) = " " -> Trim(Tail(cs))
      [] cs[Len(cs)] = " " -> Trim(SubSeq(cs, 1, Len(cs) - 1))
      [] OTHER -> cs

\* the elements of a comma-separated list as the user wrote them: a comma
\* after the last element ends the list, and the empty list has no element
Elements(text0) ==
    LET ps == SplitTop(text0, 0, <<>>, <<>>)
        ts == [k \in 1..Len(ps) |-> Str(Trim(ps[k]))]
    IN  IF ts[Len(ts)] = "" THEN SubSeq(ts, 1, Len(ts) - 1) ELSE ts

\* the expression of the formula, when it has one
Root(fexpr) == IF fexpr.ok THEN <<fexpr.node>> ELSE <<>>

\* the elements of the list literal, when the text is one
Elts(fexpr) ==
    IF fexpr.ok /\ fexpr.node.kind = "CompositeLit" THEN Tail(fexpr.node.kids) ELSE <<>>

\* the expression trees of the formulas of text, by the entry point taken
Trees ==
    IF entry = "parseY" THEN Root(ParseExprFrom(text))
    ELSE Elts(ParseExprFrom(Wrapped(text)))

\* ------------------------------------------------------------------------
\* Claims on compiling and evaluating

\* C1 (as stated): a program the compiler accepted, run on a binding with a
\* value for every variable it reads, ends with exactly one value on its
\* stack: no read below the stack, no fatal exit.
C1_OneValueOnStack ==
    (outcome.st # "" /\ Referenced(compiled.vs[picked]) \subseteq DOMAIN binding)
        => outcome.st = "ok"

C3_OutsideGrammarRejected == (entry # "" /\ compiled.st = "ok") => InGrammar(Trees)

\* C5: the value of an accepted formula is the value of its expression tree:
\* left operand first, right operand second, unary minus negating, unary plus
\* the identity, a literal its value and a variable its bound value.
C5_ValueIsTreeValue ==
    outcome.st # "" => \A v \in {TreeValue(Trees[picked], binding)} :
               v # Undef => outcome = Outcome("ok", v)

C5_Witness ==
    /\ outcome.st = "ok"
    /\ Trees[picked].kind = "BinaryExpr"
    /\ Trees[picked].op = "-"
    /\ TreeValue(Trees[picked], binding) = Fin(-1, 11, 2)
    /\ outcome.v = Fin(-1, 11, 2)

\* C6: the instructions of an accepted formula are the post-order traversal
\* of its expression tree, and their strings are the literal as written, the
\* variable's name, + - * /, u+ and u-, and math.<Function>.
C6_OutputIsPostOrder ==
    (entry # "" /\ compiled.st = "ok") =>
        \A ts \in {Trees} :
            /\ Len(ts) = Len(compiled.vs)
            /\ \A i \in 1..Len(ts) :
                   InGrammar(<<ts[i]>>) =>
                       Strings(compiled.vs[i].output) = PostOrder(<<ts[i]>>)

C6_Witness ==
    /\ entry = "parseX"
    /\ compiled.st = "ok"
    /\ Len(compiled.vs) = 2
    /\ Strings(compiled.vs[1].output)
           = <<"M", "N", "+", "M", "N", "-", "math.Hypot", "u-">>
    /\ PostOrder(<<Trees[2]>>) = <<"M", "u+", "N", "/">>

\* C7: parseX returns one program for each top-level element of the list, in
\* the order of the list, and the String() of each is the text of its
\* element as written, without the blanks around it.
C7_OneProgramPerElement ==
    (entry = "parseX" /\ compiled.st = "ok")
        => [k \in 1..Len(compiled.vs) |-> compiled.vs[k].s] = Elements(text)

C7_Witness ==
    /\ entry = "parseX"
    /\ compiled.st = "ok"
    /\ Len(compiled.vs) = 2
    /\ compiled.vs[1].s = "N"
    /\ compiled.vs[2].s = "1.0"
    /\ Head(text) = " "

\* C9 (as stated): running a program on a binding without a value for a
\* variable it reads is a fault, not a normal return of a number.
C9_UnboundIsFault ==
    (outcome.st # "" /\ ~(Referenced(compiled.vs[picked]) \subseteq DOMAIN binding))
        => outcome.st # "ok"

\* ------------------------------------------------------------------------
\* Claims on main and sampleGroup

\* the expression trees of the explanatory formulas and of the response
\* formula of the command line
XTrees == Elts(ParseExprFrom(Wrapped(flags.xtransform)))

YTrees == Root(ParseExprFrom(flags.ytransform))

\* the expression is a division whose right operand has the value zero
ZeroDivisor(node, b) ==
    /\ node.kind = "BinaryExpr"
    /\ node.op = "/"
    /\ IsZero(TreeValue(node.kids[2], b))

\* the sequence s ends with the sequence t
EndsWith(s, t) == Len(t) <= Len(s) /\ SubSeq(s, Len(s) - Len(t) + 1, Len(s)) = t

\* C4: when the pattern has a group named Y, main (past the check of its
\* arguments) ends with the reserved-name error before parseX and parseY
\* are called: no program is built, no file opened, no benchmark read.
C4_ReservedNameAborts ==
    ("Y" \in readNames(flags.vars) /\ Len(args) <= 1 /\ pc \notin {"main", "readNames"})
        => /\ pc = "exit"
           /\ exit = Fatal(Reserved)
           /\ xExprs = NotCompiled
           /\ yExpr = Compiled("", NoEvaluation)
           /\ ~opened
           /\ benchSet = <<>>
           /\ passes = <<>>

C4_Witness ==
    /\ "Y" \in readNames(flags.vars)
    /\ exit = Fatal(Reserved)
    /\ args = <<"bench.txt">>

\* C8: a division by an operand of value zero is no error: the formula is
\* compiled, Eval returns an infinity or a NaN, and the pass of sampleGroup
\* that met it appends its observation to the group's sample.
C8_DivisionByZeroIsNoError ==
    \A k \in 1..Len(passes) :
        \A p \in {passes[k]} :
            p.st = "evaluated" =>
                /\ \A i \in 1..Len(p.x) :
                       ZeroDivisor(XTrees[i], p.vars)
                           => p.x[i].st = "ok" /\ p.x[i].v.k \in {"inf", "nan"}
                /\ \A j \in 1..Len(p.y) :
                       ZeroDivisor(YTrees[1],
                                   WithY(p.vars, benchSet[p.name][j], flags.response))
                           => p.y[j].st = "ok" /\ p.y[j].v.k \in {"inf", "nan"}
                /\ (k = Len(passes) /\ Ended(p.x \o p.y) = "ok")
                       => /\ p.group \in DOMAIN samps
                          /\ Len(p.y) = Len(benchSet[p.name])
                          /\ EndsWith(samps[p.group].y, Values(p.y))
                          /\ EndsWith(samps[p.group].x, Rows(Values(p.x), Len(p.y)))

C8_Witness ==
    /\ Len(passes) = 1
    /\ passes[1].st = "evaluated"
    /\ ZeroDivisor(XTrees[1], passes[1].vars)
    /\ ZeroDivisor(YTrees[1], WithY(passes[1].vars, benchSet[passes[1].name][1],
                                    flags.response))
    /\ samps[passes[1].group] = samp(<<Inf(1)>>, <<Inf(1)>>)

\* C10: when parseX fails, parseY fails, or the response is none of the four
\* valid names, main ends before it opens the file: nothing is read,
\* sampled, estimated or reported.
C10_AbortsBeforeOpen ==
    /\ xExprs.st = "err" => exit = Fatal(xExprs.err)
    /\ yExpr.err # "" => exit = Fatal(yExpr.err)
    /\ (\/ xExprs.st = "err"
        \/ yExpr.err # ""
        \/ /\ flags.response \notin validYs
           /\ pc \notin {"main", "readNames", "parseX", "parseY", "response"})
           => /\ pc = "exit"
              /\ exit.st \in {"fatal", "panic"}
              /\ ~opened
              /\ benchSet = <<>>
              /\ passes = <<>>
              /\ samps = <<>>
              /\ fits = <<>>
              /\ report = NoReport

C10_Witness ==
    /\ flags.response \notin validYs
    /\ xExprs.st = "ok"
    /\ yExpr.v.output # <<>>
    /\ exit = Fatal("invalid response: nsperop")
    /\ ~opened

\* ------------------------------------------------------------------------
\* Claims on the samples, the fits and the report

\* C11: at every point of sampleGroup's loop, and so when it has returned,
\* the x of every group has as many values as its y times the number of
\* explanatory programs, and the y of a group has one value for each run of
\* each benchmark that a pass has sampled into that group; a benchmark that
\* was passed over has added nothing, and no group is without a run.
C11_RowsTimesWidth ==
    LET sampled(g) ==
            {k \in 1..Len(passes) :
                /\ passes[k].st = "evaluated"
                /\ Ended(passes[k].x \o passes[k].y) = "ok"
                /\ passes[k].group = g}
        runs(g) ==
            UNION {{<<k, j>> : j \in 1..Len(benchSet[passes[k].name])} : k \in sampled(g)}
    IN  \A g \in DOMAIN samps :
            /\ Len(samps[g].x) = Len(samps[g].y) * Len(xExprs.vs)
            /\ Len(samps[g].y) = Cardinality(runs(g))
            /\ Len(samps[g].y) > 0

C11_Witness ==
    /\ pc = "estimate"
    /\ Len(passes) = 3
    /\ Len(xExprs.vs) = 2
    /\ \E g \in DOMAIN samps : Len(samps[g].y) = 3 /\ Len(samps[g].x) = 6
    /\ \E k \in 1..3 : passes[k].st = "skipped"

\* C12 (as stated): of a sample with at least one row estimate returns nil
\* or a vector of as many coefficients as the sample is wide, and it never
\* faults: main's loop over samps is never ended by a panic of estimate.
C12_EstimateNilOrWidth ==
    /\ \A g \in DOMAIN fits :
           /\ Len(samps[g].y) >= 1
           /\ fits[g].st = "nil" \/ Len(fits[g].m) = Len(xExprs.vs)
    /\ ~(pc = "exit" /\ exit = Panicked("slice bounds out of range"))

\* C13 (as stated): stats signals its caller when the half-widths are not
\* defined, so it hands main half-widths only for samples with more rows
\* than columns and an XtX that can be inverted.
C13_StatsSignalsUndefined ==
    \A g \in DOMAIN cints :
        /\ Len(samps[g].y) > Len(samps[g].x) \div Len(samps[g].y)
        /\ ~IsZero(normal(samps[g]).det)

\* C14: the r2 that stats returns is 1 - RSS/TSS, RSS the sum over the rows
\* i of (sum over j of m[j] * x[i*width + j] - y[i]) squared, TSS the sum of
\* the y[i] squared (not of the squared deviations from their mean), the
\* width being the number of explanatory programs.
C14_R2IsUncentered ==
    \A g \in DOMAIN rsquares :
        LET w == Len(xExprs.vs)
            x == samps[g].x
            y == samps[g].y
            m == fits[g].m
            RECURSIVE fitted(_, _)
            fitted(i, j) ==
                IF j = 0 THEN Zero
                ELSE FAdd(fitted(i, j - 1), FMul(m[j], x[(i - 1) * w + j]))
            RECURSIVE RSS(_)
            RSS(i) ==
                IF i = 0 THEN Zero
                ELSE FAdd(RSS(i - 1),
                          FMul(FSub(fitted(i, w), y[i]), FSub(fitted(i, w), y[i])))
            RECURSIVE TSS(_)
            TSS(i) == IF i = 0 THEN Zero ELSE FAdd(TSS(i - 1), FMul(y[i], y[i]))
        IN  rsquares[g] = FSub(Fin(1, 1, 1), FQuo(RSS(Len(y)), TSS(Len(y))))

\* the rows (0, 1), (2, 1), (8, 1), (8, 1) with y = 1, 3, 9, 7: the fit is
\* 44/51 and 19/17, RSS = 104/51, TSS = 140, r2 = 1 - 26/1785
C14_Witness ==
    \E g \in DOMAIN rsquares :
        /\ Len(samps[g].y) = 4
        /\ fits[g].m = <<Fin(1, 44, 51), Fin(1, 19, 17)>>
        /\ rsquares[g] = Fin(1, 1759, 1785)

\* C15 (as stated): main's loop over samps gives every group one entry of
\* fits, calls stats for the groups whose estimate is not nil and for no
\* other, and what it keeps for a group comes of that group's sample alone,
\* whatever estimate returned of the others: once sampleGroup has returned
\* groups and main is no longer in the loop, no group is without its entry.
C15_EveryGroupFitted ==
    /\ DOMAIN rsquares = {g \in DOMAIN fits : fits[g].st # "nil"}
    /\ DOMAIN cints = DOMAIN rsquares
    /\ \A g \in DOMAIN fits :
           /\ g \in DOMAIN samps
           /\ fits[g] \in estimate(samps[g])
           /\ g \in DOMAIN rsquares =>
                  [r2 |-> rsquares[g], cint |-> cints[g]] = stats(fits[g].m, samps[g])
    /\ (/\ DOMAIN samps # {}
        /\ todo = {}
        /\ \A k \in 1..Len(passes) : Ended(passes[k].x \o passes[k].y) = "ok"
        /\ pc # "estimate")
           => DOMAIN fits = DOMAIN samps

\* C16: the report is the heading, once and first, and after it exactly one
\* row for each group of fits, of as many columns as the heading: the name
\* of the group, then for a group without a model the placeholder in every
\* column, and for a group with a model coefficient j (with its half-width)
\* under explanatory term j and R^2 in the last column.
C16_OneRowPerGroup ==
    report # NoReport =>
        LET n == Len(xExprs.vs)
            row(g) == CHOOSE r \in 2..Len(report) : report[r][1].s = Str(g)
        IN  /\ Len(report) = 1 + Cardinality(DOMAIN fits)
            /\ Len(report[1]) = n + 2
            /\ report[1][1].s = "group \\ " \o yExpr.v.s \o " ~"
            /\ \A j \in 1..n : report[1][j + 1].s = xExprs.vs[j].s
            /\ report[1][n + 2].s = "R^2"
            /\ \A g \in DOMAIN fits :
                   /\ Cardinality({r \in 2..Len(report) : report[r][1].s = Str(g)}) = 1
                   /\ Len(report[row(g)]) = n + 2
                   /\ IF fits[g].st = "nil"
                      THEN \A k \in 2..n + 2 : report[row(g)][k].s = "~"
                      ELSE /\ \A j \in 1..n :
                                  /\ report[row(g)][j + 1].b = fits[g].m[j]
                                  /\ report[row(g)][j + 1].c = cints[g][j]
                                  /\ report[row(g)][j + 1].s \notin {"~", "", "%g"}
                           /\ report[row(g)][n + 2].s = "%g"
                           /\ report[row(g)][n + 2].b = rsquares[g]

C16_Witness ==
    /\ exit.st = "done"
    /\ Len(report) = 3
    /\ Len(report[1]) = 4
    /\ \E r, q \in 2..3 :
           /\ \A k \in 2..4 : report[r][k].s = "~"
           /\ report[q][4].s = "%g"
           /\ report[q][2].b = fits[<<"B", "e", "n", "c", "h", "m", "a", "r", "k", "F">>].m[1]

\* C17: a benchmark whose name matches the pattern with a capture that is
\* no number is passed over whole: nothing is evaluated for it, and at every
\* point the samples are what the other benchmarks alone have given, group
\* by group and in the order of the passes; the loop goes on to the end of
\* the set.
C17_NonNumericSkipped ==
    LET nonNumeric(name) ==
            \E input \in {FindStringSubmatch(flags.vars, name)} :
                input.ok /\ \E i \in 2..Len(input.m) : ~ParseFloatOk(input.m[i])
        gave(g, k) == passes[k].st = "evaluated" /\ passes[k].group = g
        RECURSIVE givenX(_, _)
        givenX(g, k) ==
            IF k = 0 THEN <<>>
            ELSE givenX(g, k - 1)
                     \o (IF gave(g, k) THEN Rows(Values(passes[k].x), Len(passes[k].y))
                         ELSE <<>>)
        RECURSIVE givenY(_, _)
        givenY(g, k) ==
            IF k = 0 THEN <<>>
            ELSE givenY(g, k - 1) \o (IF gave(g, k) THEN Values(passes[k].y) ELSE <<>>)
    IN  /\ \A k \in 1..Len(passes) :
               nonNumeric(passes[k].name) =>
                   /\ passes[k].st = "skipped"
                   /\ passes[k].x = <<>>
                   /\ passes[k].y = <<>>
        /\ (pc \in {"sample", "estimate", "report"} \/ exit.st = "done") =>
               /\ \A g \in DOMAIN samps :
                      samps[g] = samp(givenX(g, Len(passes)), givenY(g, Len(passes)))
               /\ \A k \in 1..Len(passes) :
                      passes[k].group \in DOMAIN samps
                          <=> givenY(passes[k].group, Len(passes)) # <<>>
               /\ Len(passes) + Cardinality(todo) = Cardinality(DOMAIN benchSet)

C17_Witness ==
    /\ pc = "estimate"
    /\ Len(passes) = 3
    /\ passes[1].st = "evaluated"
    /\ passes[2].st = "skipped"
    /\ passes[2].name[Len(passes[2].name) - 2] = "a"
    /\ passes[3].st = "evaluated"
    /\ Len(samps[passes[2].group].y) = 3

\* ------------------------------------------------------------------------
\* Claims on calling value again and on the reserved name

C19_YAfterExplanatory ==
    LET names == readNames(flags.vars)
        xs == Elts(ParseExprFrom(Wrapped(flags.xtransform)))
        ys == Root(ParseExprFrom(flags.ytransform))
    IN  ("Y" \notin names /\ Len(args) <= 1) =>
            /\ "Y" \in varNames =>
                   /\ xExprs.st = "ok"
                   /\ pc \notin {"main", "readNames", "parseX", "parseY"}
            /\ (/\ pc \notin {"main", "readNames", "parseX"}
                /\ HasUnknown(xs, names)
                /\ ~HasUnknown(xs, names \cup {"Y"}))
                   => /\ xExprs.st = "err"
                      /\ xExprs.err = "unknown variable: Y"
                      /\ xExprs.vs = <<>>
                      /\ exit = Fatal("unknown variable: Y")
                      /\ "Y" \notin varNames
                      /\ yExpr = Compiled("", NoEvaluation)
            /\ (/\ "Y" \in varNames
                /\ ys # <<>>
                /\ InGrammar(ys)
                /\ TreeValue(ys[1], [n \in names \cup {"Y"} |-> Fin(1, 1, 1)]) # Undef
                /\ ~HasUnknown(ys, names \cup {"Y"}))
                   => /\ yExpr.err = ""
                      /\ Strings(yExpr.v.output) = PostOrder(ys)

\* the explanatory list "N, Y" under a pattern that captures N
C19_Witness ==
    /\ flags.xtransform = <<"N", ",", " ", "Y">>
    /\ readNames(flags.vars) = {"", "N"}
    /\ pc = "exit"
    /\ exit = Fatal("unknown variable: Y")
    /\ varNames = {"", "N"}

\* C20: in every pass of sampleGroup that evaluates, vars holds the float of
\* the capture of every name of the pattern and no Y; every explanatory
\* program reads only names of vars; the response program reads only those
\* and Y; each explanatory value is the value of its formula under vars, and
\* the response value of run j is the value of the response formula under
\* vars with Y the field of run j that the response flag names.
C20_BindingCoversProgram ==
    \A k \in 1..Len(passes) :
        passes[k].st = "evaluated" =>
            \A p \in {passes[k]}, names \in {SubexpNames(flags.vars)},
               input \in {FindStringSubmatch(flags.vars, passes[k].name)},
               xs \in {Elts(ParseExprFrom(Wrapped(flags.xtransform)))},
               ys \in {Root(ParseExprFrom(flags.ytransform))} :
                /\ DOMAIN p.vars = {names[i] : i \in 2..Len(names)}
                /\ "Y" \notin DOMAIN p.vars
                /\ \A i \in 2..Len(names) :
                       ParseFloatOk(input.m[i]) /\ p.vars[names[i]] = ParseFloat(input.m[i])
                /\ \A i \in 1..Len(xExprs.vs) :
                       Referenced(xExprs.vs[i]) \subseteq DOMAIN p.vars
                /\ Referenced(yExpr.v) \subseteq DOMAIN p.vars \cup {"Y"}
                /\ \A i \in 1..Len(p.x) :
                       \A v \in {TreeValue(xs[i], p.vars)} :
                           v # Undef => p.x[i] = Outcome("ok", v)
                /\ \A j \in 1..Len(p.y) :
                       \A v \in {TreeValue(ys[1],
                                           [n \in DOMAIN p.vars \cup {"Y"} |->
                                               IF n = "Y"
                                               THEN benchSet[p.name][j][flags.response]
                                               ELSE p.vars[n]])} :
                           v # Undef => p.y[j] = Outcome("ok", v)

\* a benchmark of two captures whose explanatory programs read both and
\* whose response program reads Y and a capture
C20_Witness ==
    /\ Len(passes) > 0
    /\ passes[Len(passes)].st = "evaluated"
    /\ DOMAIN passes[Len(passes)].vars = {"M", "N"}
    /\ Len(passes[Len(passes)].x) = 2
    /\ Len(passes[Len(passes)].y) > 0
    /\ Referenced(xExprs.vs[1]) = {"M", "N"}
    /\ Referenced(yExpr.v) = {"Y", "N"}
    /\ Ended(passes[Len(passes)].x \o passes[Len(passes)].y) = "ok"

\* ------------------------------------------------------------------------
\* Claims on the group name, the empty report, parseX and the captures

\* C21 (as stated): for a benchmark whose name matches the pattern, the group
\* name is the name without the matched text, which here ends the name: no
\* character before the match is removed, and two benchmarks are of one
\* group exactly when their texts before the match are equal.
C21_GroupIsUnmatchedPart ==
    \A k \in 1..Len(passes) :
        passes[k].st # "no match" =>
            \A input \in {FindStringSubmatch(flags.vars, passes[k].name)} :
                /\ input.ok
                /\ passes[k].group
                       = SubSeq(passes[k].name, 1, Len(passes[k].name) - Len(input.m[1]))

\* C22 (as stated): writeReport returns for every fits, also for the empty
\* fits of a file none of whose names matches the pattern, and then writes
\* no row for a group.
C22_ReportNeverFaults ==
    [][pc = "report" =>
           /\ exit'.st = "done"
           /\ DOMAIN fits = {} => Len(report') <= 1]_vars

\* C23 (as stated): parseX returns for every text, with the evaluations and
\* a nil error or with an error and no evaluation; it never panics, also
\* when the wrapped text is no single list literal.
C23_ParseXNeverFaults ==
    entry = "parseX" =>
        /\ compiled.st \in {"ok", "err"}
        /\ compiled.st = "ok" => compiled.err = ""
        /\ compiled.st = "err" => compiled.err # "" /\ compiled.vs = <<>>

\* C24 (as stated): a benchmark whose name matches is skipped as non-numeric
\* only when a group that has a name and took part in the match captured a
\* text that is no number; a group without a name, or one that took no part,
\* never makes the pass skip.
C24_OnlyNamedCapturesSkip ==
    \A k \in 1..Len(passes) :
        passes[k].st = "skipped" =>
            \A names \in {SubexpNames(flags.vars)},
               input \in {FindStringSubmatch(flags.vars, passes[k].name)} :
                \E i \in 2..Len(names) :
                    /\ names[i] # ""
                    /\ input.m[i] # <<>>
                    /\ ~ParseFloatOk(input.m[i])

=============================================================================
